---- MODULE Spec2Model ----
(***************************************************************************)
(* The dashboard client of the inverter simulator (static/js/app.js): the  *)
(* Status, Chart/History and Modbus pollers, the eight command handlers,   *)
(* the alert banner and the render functions, as a state machine.          *)
(*                                                                         *)
(* Conventions.                                                            *)
(*  - An async function is split at its awaits: the call issues the fetch  *)
(*    (pending[p] counts the cycles of poller p that wait for a response), *)
(*    and the response ends the wait in one of three ways: the fetch       *)
(*    rejects, the body is not JSON, or the body parses and the rest of    *)
(*    the try block runs in one step.  The two awaits (fetch, then         *)
(*    response.json()) are one wait: the cycle writes nothing in between.  *)
(*    A throw inside the try block ends the block at the statement that    *)
(*    threw, keeping the writes made before it.                            *)
(*  - A JSON object is a record with a field "fields": the names present   *)
(*    in it.  Reading an absent name yields undefined, as in JavaScript.   *)
(*  - Numbers are integers in thousandths; toFixed rounds them.            *)
(*  - The markup is taken to hold every element the script addresses by id *)
(*    or class.  User-visible strings are given in English.                *)
(*  - lastStatus, lastCmd, lastHealth, ... record the cycle that completed *)
(*    last and are read by the properties only.                            *)
(***************************************************************************)
EXTENDS Integers, Sequences, FiniteSets, Bags, TLC

\* ---------------------------------------------------------------- bounds
MaxInFlight == 2
MaxInverters == 2
MaxCommands == 2
MaxHourly == 26
MaxLogs == 3
MaxPoints == 2
MaxOutstanding == 1
MaxStarts == 3

\* ------------------------------------------------------- program constants
\* The tail of hourly_data that is shown: slice(-24).
HourlyWindow == 24

VARIABLES
    loaded,              \* DOMContentLoaded has run
    updateInterval,      \* handle of the Status timer, 0 for null
    chartInterval,       \* handle of the Chart/History timer, 0 for null
    timers,              \* the active intervals: records [id, kind]
    pending,             \* per poller: cycles waiting for their response
    statusFlight,        \* the updateStatus calls waiting, in the order issued
    cmdPending,          \* bag of command requests in flight
    powerChart,          \* the Chart.js instance: its labels and data set
    statusUI,            \* plant id, update time, summary values, inverter grid
    hourlyList,          \* children of #hourly-list
    modbusUI,            \* indicator, port, baudrate, slaves, slave grid
    modbusAlertElement,  \* the banner the script holds, id 0 for null
    sectionBanners,      \* banners attached to .modbus-section, first child first
    modbusLog,           \* children of #modbus-log
    oobStatus,           \* updateStatus calls made by command handlers
    cmdSucceeded,        \* commands whose parsed response had success = true
    dispatched,          \* commands dispatched so far
    notified,            \* showMessage calls made so far
    lastStatus,          \* the Status cycle that completed last
    lastCmd,             \* the command that completed last
    lastChart,           \* the time-series cycle that completed last
    lastHourly,          \* the hourly cycle that completed last
    lastHealth,          \* the health cycle that completed last
    lastLog,             \* the log cycle that completed last, and whether it
                         \* found the pane cleared by hand
    lastAlertCall        \* the last call of showModbusAlert / hideModbusAlert,
                         \* and which call it came after

vars == <<loaded, updateInterval, chartInterval, timers, pending, statusFlight, cmdPending,
          powerChart, statusUI, hourlyList, modbusUI, modbusAlertElement,
          sectionBanners, modbusLog, oobStatus, cmdSucceeded, dispatched, notified,
          lastStatus, lastCmd, lastChart, lastHourly, lastHealth, lastLog, lastAlertCall>>

\* The variables by owner.
timerVars == <<loaded, updateInterval, chartInterval, timers>>
statusVars == <<statusUI, lastStatus>>
flightVars == <<statusFlight>>
cmdVars == <<cmdPending, oobStatus, cmdSucceeded, dispatched, notified, lastCmd>>
chartVars == <<powerChart, lastChart>>
hourlyVars == <<hourlyList, lastHourly>>
healthVars == <<modbusUI, modbusAlertElement, sectionBanners, lastHealth, lastAlertCall>>
logVars == <<modbusLog, lastLog>>

\* ---------------------------------------------------------------- helpers
Pollers == {"status", "chart", "hourly", "health", "log"}

Has(obj, name) == name \in obj.fields

Issue(pend, p) == [pend EXCEPT ![p] = @ + 1]

Settle(pend, p) == [pend EXCEPT ![p] = @ - 1]

Min(a, b) == IF a <= b THEN a ELSE b

Max(a, b) == IF a >= b THEN a ELSE b

Pow10(n) == IF n = 0 THEN 1 ELSE IF n = 1 THEN 10 ELSE IF n = 2 THEN 100 ELSE 1000

\* Number.prototype.toFixed on a value given in thousandths: the value rounded
\* to `digits` decimals, as <<units of 10^-digits, digits>>.
toFixed(x, digits) ==
    LET q == Pow10(3 - digits)
    IN  <<(x + q \div 2) \div q, digits>>

\* Date.prototype.toLocaleTimeString of an instant given in seconds: <<h, m, s>>.
toLocaleTimeString(seconds) ==
    <<(seconds \div 3600) % 24, (seconds \div 60) % 60, seconds % 60>>

\* setInterval's return value: a handle no active timer has.
FreshTimer(ts) ==
    CHOOSE i \in 1..(Cardinality(ts) + 1) : \A t \in ts : t.id # i

Generations == {1, 2}

\* An updateStatus call that waits for its response: who made it, and whether
\* a call made after it has completed since.
Request(origin) == [origin |-> origin, overtaken |-> FALSE]

NoRequest == Request("none")

\* The calls left waiting when call k completes: those made before it have
\* been overtaken.
Land(flight, k) ==
    [i \in 1..(Len(flight) - 1) |->
        IF i < k THEN [flight[i] EXCEPT !.overtaken = TRUE] ELSE flight[i + 1]]

\* --------------------------------------------------------- Status payloads
Clock == {"10:00:00", "10:00:01"}

StatusFields == {"plant_id", "total_power", "total_capacity_mva", "inverters", "pv_generators"}

InverterId(i) ==
    CASE i = 1 -> "INV-001" [] i = 2 -> "INV-002" [] i = 3 -> "INV-003" [] OTHER -> "INV-00N"

\* Inverter i and PV generator i of the snapshot of generation g.
InverterState(g, i) ==
    [id |-> InverterId(i), is_on |-> (g + i) % 2 = 0,
     monitoring |-> [active_power |-> 50125 * i + g, output_voltage |-> 380049 + i,
                     output_current |-> 76004 * g + i, power_factor |-> 990 + g,
                     efficiency |-> 97450 + i]]

PvState(g, i) ==
    [control_mode |-> IF (g + i) % 2 = 1 THEN "MPPT" ELSE "P_CONTROL",
     p_control_percent |-> 10 * i + g,
     monitoring |-> [power_generation |-> 51436 * i + g, voltage |-> 600050 + 10 * i,
                     current |-> 85726 * g + i]]

Snapshot(g, n) ==
    [fields |-> StatusFields,
     plant_id |-> IF g = 1 THEN "PLANT-1" ELSE "PLANT-2",
     total_power |-> [total_active_power_kw |-> 123456 * g,
                      utilization_percent |-> 41152 * g,
                      total_reactive_power_kvar |-> 1005 * g],
     total_capacity_mva |-> 300 * g,
     inverters |-> [i \in 1..n |-> InverterState(g, i)],
     pv_generators |-> [i \in 1..n |-> PvState(g, i)]]

\* Snapshots with one PvState per InverterState.
WellFormedSnapshots == { Snapshot(g, n) : g \in Generations, n \in 0..MaxInverters }

\* Parsed bodies that are no PlantSnapshot: a name missing (all of them for a
\* {success: false, message} body), or pv_generators one shorter than inverters.
Without(d, names) == [d EXCEPT !.fields = @ \ names]

ShortPv(d) == [d EXCEPT !.pv_generators = SubSeq(@, 1, Len(@) - 1)]

MalformedSnapshots ==
    { ShortPv(d) : d \in { s \in WellFormedSnapshots : Len(s.inverters) >= 1 } }
    \cup { Without(Snapshot(g, 1), {f}) : g \in Generations, f \in StatusFields }
    \cup { Without(Snapshot(g, 0), StatusFields) : g \in Generations }

StatusPayloads == WellFormedSnapshots \cup MalformedSnapshots

WellFormed(d) ==
    /\ d.fields = StatusFields
    /\ Len(d.pv_generators) >= Len(d.inverters)

NoSnapshot == Without(Snapshot(1, 0), StatusFields)

\* ------------------------------------------------------------ Status render
\* createInverterCard: the card's class, title, badge, eight monitoring values
\* and the controls bound to `index`.
createInverterCard(inverter, pvGen, index) ==
    [cls |-> IF inverter.is_on THEN "inverter-card on" ELSE "inverter-card off",
     title |-> inverter.id,
     badge |-> IF inverter.is_on THEN "ON" ELSE "OFF",
     pv_power |-> toFixed(pvGen.monitoring.power_generation, 2),
     pv_voltage |-> toFixed(pvGen.monitoring.voltage, 1),
     pv_current |-> toFixed(pvGen.monitoring.current, 2),
     active_power |-> toFixed(inverter.monitoring.active_power, 2),
     output_voltage |-> toFixed(inverter.monitoring.output_voltage, 1),
     output_current |-> toFixed(inverter.monitoring.output_current, 2),
     power_factor |-> toFixed(inverter.monitoring.power_factor, 3),
     efficiency |-> toFixed(inverter.monitoring.efficiency, 1),
     index |-> index,
     mode_selected |-> pvGen.control_mode,
     p_control |-> pvGen.p_control_percent]

\* pvGenerators[index], with index counted from 0: is it defined?
PvDefined(data, index) ==
    Has(data, "pv_generators") /\ index + 1 <= Len(data.pv_generators)

\* The forEach of updateInverterCards from position i (1-based) on: appends a
\* card per inverter and stops at the first one whose pvGen is undefined.
RECURSIVE AppendCards(_, _, _)
AppendCards(grid, data, i) ==
    IF i > Len(data.inverters) THEN [grid |-> grid, threw |-> FALSE]
    ELSE IF ~PvDefined(data, i - 1) THEN [grid |-> grid, threw |-> TRUE]
    ELSE AppendCards(Append(grid, createInverterCard(data.inverters[i],
                                                     data.pv_generators[i], i - 1)),
                     data, i + 1)

\* updateInverterCards as it would be without grid.innerHTML = '': the new cards
\* follow the old ones.
updateInverterCards_merge(ui, data) ==
    IF ~Has(data, "inverters") THEN [ui |-> ui, threw |-> TRUE]
    ELSE LET r == AppendCards(ui.grid, data, 1)
         IN  [ui |-> [ui EXCEPT !.grid = r.grid], threw |-> r.threw]

\* updateInverterCards(data.inverters, data.pv_generators): empties the grid,
\* then appends; inverters.forEach throws on an undefined inverters.
updateInverterCards(ui, data) ==
    IF ~Has(data, "inverters") THEN [ui |-> [ui EXCEPT !.grid = <<>>], threw |-> TRUE]
    ELSE LET r == AppendCards(<<>>, data, 1)
         IN  [ui |-> [ui EXCEPT !.grid = r.grid], threw |-> r.threw]

\* updateUI(data) at clock reading `now`: the writes in source order, ending at
\* the first statement that throws.
updateUI(ui, data, now) ==
    LET s1 == [ui EXCEPT !.plantId = IF Has(data, "plant_id") THEN data.plant_id
                                     ELSE "undefined",
                         !.updateTime = now]
        s2 == [s1 EXCEPT !.totalPower = toFixed(data.total_power.total_active_power_kw, 2),
                         !.utilization = toFixed(data.total_power.utilization_percent, 2),
                         !.reactivePower = toFixed(data.total_power.total_reactive_power_kvar, 2)]
        s3 == [s2 EXCEPT !.ratedCapacity = toFixed(data.total_capacity_mva, 2)]
    IN  IF ~Has(data, "total_power") THEN [ui |-> s1, threw |-> TRUE]
        ELSE IF ~Has(data, "total_capacity_mva") THEN [ui |-> s2, threw |-> TRUE]
        ELSE updateInverterCards(s3, data)

\* -------------------------------------------------------------- startup
\* How many times the start function of the timers of `kind` has run: each
\* timer carries the count of the call that set it.
Starts(ts, kind) ==
    LET counts == { t.starts : t \in { u \in ts : u.kind = kind } }
    IN  IF counts = {} THEN 0 ELSE CHOOSE n \in counts : \A m \in counts : m <= n

\* startAutoUpdate as it would be without its clearInterval.
startAutoUpdate_keeping(T) ==
    LET id == FreshTimer(T.timers)
    IN  [T EXCEPT !.timers = @ \cup {[id |-> id, kind |-> "status",
                                       starts |-> Starts(T.timers, "status") + 1]},
                  !.updateInterval = id]

\* startAutoUpdate: clears the timer updateInterval names, then sets a new one.
startAutoUpdate(T) ==
    LET kept == IF T.updateInterval # 0
                THEN { t \in T.timers : t.id # T.updateInterval } ELSE T.timers
        id == FreshTimer(kept)
    IN  [T EXCEPT !.timers = kept \cup {[id |-> id, kind |-> "status",
                                          starts |-> Starts(T.timers, "status") + 1]},
                  !.updateInterval = id]

\* startChartUpdate: the same for chartInterval, then updateChart() and
\* updateHourlyData() at once.
startChartUpdate(T) ==
    LET kept == IF T.chartInterval # 0
                THEN { t \in T.timers : t.id # T.chartInterval } ELSE T.timers
        id == FreshTimer(kept)
    IN  [T EXCEPT !.timers = kept \cup {[id |-> id, kind |-> "chart",
                                          starts |-> Starts(T.timers, "chart") + 1]},
                  !.chartInterval = id,
                  !.pending = Issue(Issue(@, "chart"), "hourly")]

\* startModbusUpdate: updateModbusStatus() and updateModbusLog() at once, then
\* an interval whose handle is not kept.
startModbusUpdate(T) ==
    [T EXCEPT !.pending = Issue(Issue(@, "health"), "log"),
              !.timers = @ \cup {[id |-> FreshTimer(@), kind |-> "modbus",
                                  starts |-> Starts(@, "modbus") + 1]}]

\* loadInitialData as it would be if the first Status fetch were left to the
\* first tick of the Status timer.
loadInitialData_deferred(T) == T

\* loadInitialData: updateStatus().
loadInitialData(T) ==
    [T EXCEPT !.pending = Issue(@, "status"), !.flight = Append(@, Request("load"))]

\* initializeChart: a line chart with no labels and no data.
initializeChart == [created |-> TRUE, labels |-> <<>>, data |-> <<>>]

TimerState ==
    [timers |-> timers, updateInterval |-> updateInterval,
     chartInterval |-> chartInterval, pending |-> pending, flight |-> statusFlight]

SetTimerState(T) ==
    /\ timers' = T.timers
    /\ updateInterval' = T.updateInterval
    /\ chartInterval' = T.chartInterval
    /\ pending' = T.pending
    /\ statusFlight' = T.flight

\* The DOMContentLoaded listeners: initializeChart, initializeEventListeners,
\* the three starts, loadInitialData, and the wiring of the clear-log button.
DOMContentLoaded ==
    /\ ~loaded
    /\ loaded' = TRUE
    /\ powerChart' = initializeChart
    /\ UNCHANGED lastChart
    /\ SetTimerState(loadInitialData(startModbusUpdate(startChartUpdate(
                         startAutoUpdate(TimerState)))))
    /\ UNCHANGED <<statusVars, cmdVars, hourlyVars, healthVars, logVars>>

\* startAutoUpdate() called once more, from wherever.
CallStartAutoUpdate ==
    /\ Starts(timers, "status") < MaxStarts
    /\ SetTimerState(startAutoUpdate(TimerState))
    /\ UNCHANGED <<loaded, statusVars, cmdVars, chartVars, hourlyVars, healthVars, logVars>>

\* startChartUpdate() called once more, from wherever.
CallStartChartUpdate ==
    /\ Starts(timers, "chart") < MaxStarts
    /\ pending["chart"] < MaxInFlight /\ pending["hourly"] < MaxInFlight
    /\ SetTimerState(startChartUpdate(TimerState))
    /\ UNCHANGED <<loaded, statusVars, cmdVars, chartVars, hourlyVars, healthVars, logVars>>

\* ---------------------------------------------------------- Status poller
\* The Status interval fires: updateStatus() runs to its first await.
StatusTick ==
    /\ \E t \in timers : t.kind = "status"
    /\ pending["status"] < MaxInFlight
    /\ pending' = Issue(pending, "status")
    /\ statusFlight' = Append(statusFlight, Request("tick"))
    /\ UNCHANGED <<timerVars, statusVars, cmdVars, chartVars, hourlyVars, healthVars, logVars>>

\* updateStatus as it would be if a response that a later call's response
\* has overtaken were dropped.
updateStatusTry_latestOnly(req, ui, data, now) ==
    IF req.overtaken THEN [ui |-> ui, threw |-> FALSE] ELSE updateUI(ui, data, now)

\* updateStatus's try block after its awaits, in the call `req`: updateUI(data),
\* whichever calls were made or have completed since.
updateStatusTry(req, ui, data, now) == updateUI(ui, data, now)

\* updateStatus's catch: console.error and nothing else.
updateStatusCatch(ui) == ui

\* StatusFails as it would be if the catch cleared the Status timer.
StatusFails_stopsTimer(kind) ==
    /\ pending["status"] > 0
    /\ pending' = Settle(pending, "status")
    /\ statusUI' = statusUI
    /\ timers' = { t \in timers : t.kind # "status" }
    /\ \E k \in 1..Len(statusFlight) :
          /\ statusFlight' = Land(statusFlight, k)
          /\ lastStatus' = [outcome |-> kind, data |-> NoSnapshot, request |-> statusFlight[k]]
    /\ UNCHANGED <<loaded, updateInterval, chartInterval>>
    /\ UNCHANGED <<cmdVars, chartVars, hourlyVars, healthVars, logVars>>

\* The fetch of /api/status rejects ("rejected") or its body is not JSON
\* ("notjson"): the catch runs.
StatusFails(kind) ==
    /\ pending["status"] > 0
    /\ pending' = Settle(pending, "status")
    /\ statusUI' = updateStatusCatch(statusUI)
    /\ \E k \in 1..Len(statusFlight) :
          /\ statusFlight' = Land(statusFlight, k)
          /\ lastStatus' = [outcome |-> kind, data |-> NoSnapshot, request |-> statusFlight[k]]
    /\ UNCHANGED <<timerVars, cmdVars, chartVars, hourlyVars, healthVars, logVars>>

\* The body parses to `data`: updateUI(data); a throw in it lands in the catch.
StatusBodyParsed(data, now) ==
    /\ pending["status"] > 0
    /\ pending' = Settle(pending, "status")
    /\ \E k \in 1..Len(statusFlight) :
          LET r == updateStatusTry(statusFlight[k], statusUI, data, now)
          IN  /\ statusUI' = IF r.threw THEN updateStatusCatch(r.ui) ELSE r.ui
              /\ statusFlight' = Land(statusFlight, k)
              /\ lastStatus' = [outcome |-> IF r.threw THEN "threw" ELSE "rendered",
                                data |-> data, request |-> statusFlight[k]]
    /\ UNCHANGED <<timerVars, cmdVars, chartVars, hourlyVars, healthVars, logVars>>

\* ------------------------------------------------------ Command dispatcher
PerInverterCommands == {"controlInverter", "setControlMode", "setPControl"}

GlobalCommands == {"controlAllInverters", "setControlModeAll", "setPControlAll",
                   "setIrradiance", "setTemperature"}

Commands == PerInverterCommands \cup GlobalCommands

\* The prefix each handler's catch puts before error.message.
ErrorPrefix(h) ==
    CASE h \in {"controlInverter", "controlAllInverters"} -> "control error: "
      [] h \in {"setControlMode", "setControlModeAll"} -> "control mode error: "
      [] h \in {"setPControl", "setPControlAll"} -> "P control error: "
      [] h = "setIrradiance" -> "irradiance error: "
      [] h = "setTemperature" -> "temperature error: "

\* showMessage(message, type): one line on the console.
showMessage(prefix, message, type) == [type |-> type, prefix |-> prefix, message |-> message]

\* Parsed command responses {success, message}.
CommandResults == { [success |-> TRUE, message |-> "done"],
                    [success |-> FALSE, message |-> "refused"] }

NoResult == [success |-> FALSE, message |-> ""]

\* What ends a fetch or a response.json(): error.message.
FailureDescription(kind) ==
    IF kind = "rejected" THEN "Failed to fetch" ELSE "Unexpected token < in JSON"

\* commandTry as it would be with updateStatus() after the if / else instead of
\* inside its success arm.
commandTry_refreshAlways(h, result) ==
    IF result.success
    THEN [notes |-> <<showMessage("", result.message, "success")>>, refresh |-> 1,
          escaped |-> FALSE]
    ELSE [notes |-> <<showMessage("", result.message, "error")>>, refresh |-> 1,
          escaped |-> FALSE]

\* A handler's try block after its awaits, on the parsed `result`: the
\* notifications shown and the updateStatus() calls made.
commandTry(h, result) ==
    IF result.success
    THEN [notes |-> <<showMessage("", result.message, "success")>>, refresh |-> 1,
          escaped |-> FALSE]
    ELSE [notes |-> <<showMessage("", result.message, "error")>>, refresh |-> 0,
          escaped |-> FALSE]

\* commandCatch as it would be without the try / catch: the error leaves the
\* handler and nothing is shown.
commandCatch_uncaught(h, description) ==
    [notes |-> <<>>, refresh |-> 0, escaped |-> TRUE]

\* A handler's catch block on an error with message `description`.
commandCatch(h, description) ==
    [notes |-> <<showMessage(ErrorPrefix(h), description, "error")>>, refresh |-> 0,
     escaped |-> FALSE]

\* The buttons of a per-inverter command are part of that inverter's card.
CardIndexes == { statusUI.grid[i].index : i \in 1..Len(statusUI.grid) }

\* The handlers that read a number from an input element.
Setpoints == {"setPControl", "setPControlAll", "setIrradiance", "setTemperature"}

ModeCommands == {"setControlMode", "setControlModeAll"}

\* Text is a sequence of one-character strings.
Digits == {"0", "1", "2", "3", "4", "5", "6", "7", "8", "9"}

DigitValue(c) ==
    CASE c = "0" -> 0 [] c = "1" -> 1 [] c = "2" -> 2 [] c = "3" -> 3 [] c = "4" -> 4
      [] c = "5" -> 5 [] c = "6" -> 6 [] c = "7" -> 7 [] c = "8" -> 8 [] c = "9" -> 9

\* parseFloat, the result a value in thousandths or NaN: blanks are skipped,
\* then the longest prefix that is a decimal literal (sign, digits, point,
\* digits) is read and the rest ignored; NaN when there is no such prefix.
\* Decimals beyond the third are dropped.
parseFloat(text) ==
    LET RECURSIVE TrimStart(_)
        TrimStart(s) == IF s # <<>> /\ Head(s) = " " THEN TrimStart(Tail(s)) ELSE s
        RECURSIVE TakeDigits(_)
        TakeDigits(s) == IF s # <<>> /\ Head(s) \in Digits
                         THEN <<Head(s)>> \o TakeDigits(Tail(s)) ELSE <<>>
        RECURSIVE DigitsValue(_)
        DigitsValue(ds) == IF ds = <<>> THEN 0
                           ELSE 10 * DigitsValue(SubSeq(ds, 1, Len(ds) - 1))
                                + DigitValue(ds[Len(ds)])
        t == TrimStart(text)
        signed == t # <<>> /\ Head(t) \in {"-", "+"}
        sign == IF signed /\ Head(t) = "-" THEN -1 ELSE 1
        u == IF signed THEN Tail(t) ELSE t
        whole == TakeDigits(u)
        v == SubSeq(u, Len(whole) + 1, Len(u))
        frac == IF v # <<>> /\ Head(v) = "." THEN TakeDigits(Tail(v)) ELSE <<>>
        f3 == [i \in 1..3 |-> IF i <= Len(frac) THEN frac[i] ELSE "0"]
    IN  IF whole = <<>> /\ frac = <<>> THEN [nan |-> TRUE, value |-> 0]
        ELSE [nan |-> FALSE,
              value |-> sign * (Pow10(3) * DigitsValue(whole) + DigitsValue(f3))]

\* JSON.stringify of a number: NaN is written as null, any other value as
\* Number::toString writes it, without trailing zeros and without a point for
\* an integer.
stringify(x) ==
    LET DigitChar(d) == CHOOSE c \in Digits : DigitValue(c) = d
        RECURSIVE DigitsOf(_)
        DigitsOf(n) == IF n < 10 THEN <<DigitChar(n)>>
                       ELSE DigitsOf(n \div 10) \o <<DigitChar(n % 10)>>
        a == IF x.value < 0 THEN -x.value ELSE x.value
        f == a % Pow10(3)
        d == <<DigitChar(f \div 100), DigitChar((f \div 10) % 10), DigitChar(f % 10)>>
        shown == IF f % 10 # 0 THEN 3 ELSE IF f % 100 # 0 THEN 2 ELSE 1
    IN  IF x.nan THEN <<"n", "u", "l", "l">>
        ELSE (IF x.value < 0 THEN <<"-">> ELSE <<>>) \o DigitsOf(a \div Pow10(3))
                \o (IF f = 0 THEN <<>> ELSE <<".">> \o SubSeq(d, 1, shown))

\* requestBody as it would be if the element's value were sent without
\* parseFloat.
requestBody_unparsed(h, value) ==
    IF h \in Setpoints
    THEN [name |-> CASE h \in {"setPControl", "setPControlAll"} -> "percent"
                     [] h = "setIrradiance" -> "irradiance"
                     [] h = "setTemperature" -> "temperature",
          json |-> value]
    ELSE IF h \in ModeCommands THEN [name |-> "mode", json |-> value]
    ELSE [name |-> "", json |-> <<>>]

\* The body of handler h's POST, `value` being the value of its input or
\* select element: {name: parseFloat(value)} for a setpoint, {mode: value} for
\* a control mode (the text between its quotes), none for on / off.
requestBody(h, value) ==
    IF h \in Setpoints
    THEN [name |-> CASE h \in {"setPControl", "setPControlAll"} -> "percent"
                     [] h = "setIrradiance" -> "irradiance"
                     [] h = "setTemperature" -> "temperature",
          json |-> stringify(parseFloat(value))]
    ELSE IF h \in ModeCommands THEN [name |-> "mode", json |-> value]
    ELSE [name |-> "", json |-> <<>>]

\* The values handler h can find in the element it reads: a decimal literal or
\* nothing in the card's input of type number, any text in the other inputs,
\* an option of the select.
ValuesOf(h) ==
    LET numbers == { <<"5", "0">>, <<"1", "5", "0">>, <<"-", "5">>, <<"7", ".", "5">>, <<>> }
    IN  IF h = "setPControl" THEN numbers
        ELSE IF h \in Setpoints
        THEN numbers \cup { <<"a", "b", "c">>, <<"1", "2", "a", "b", "c">> }
        ELSE IF h \in ModeCommands
        THEN { <<"M", "P", "P", "T">>, <<"P", "_", "C", "O", "N", "T", "R", "O", "L">> }
        ELSE { <<>> }

\* One value of each element.
SampleValue(h) ==
    IF h \in Setpoints THEN <<"5", "0">>
    ELSE IF h \in ModeCommands THEN <<"M", "P", "P", "T">>
    ELSE <<>>

\* A click runs handler h to its await, the element it reads holding `value`:
\* the POST is sent.
Click(h, index, value) ==
    /\ loaded
    /\ dispatched < MaxCommands
    /\ IF h \in PerInverterCommands THEN index \in CardIndexes ELSE index = -1
    /\ value \in ValuesOf(h)
    /\ cmdPending' = cmdPending (+) SetToBag({[handler |-> h, index |-> index,
                                                value |-> value,
                                                body |-> requestBody(h, value)]})
    /\ dispatched' = dispatched + 1
    /\ UNCHANGED <<pending, oobStatus, cmdSucceeded, notified, lastCmd>>
    /\ UNCHANGED <<timerVars, statusVars, flightVars, chartVars, hourlyVars, healthVars, logVars>>

\* A click with the element holding its sample value.
Dispatch(h, index) == Click(h, index, SampleValue(h))

\* The handler of `req` ends with `out`: its request leaves the flight and its
\* updateStatus() calls are issued.
Complete(req, outcome, result, out) ==
    /\ BagIn(req, cmdPending)
    /\ cmdPending' = cmdPending (-) SetToBag({req})
    /\ pending' = IF out.refresh = 0 THEN pending
                  ELSE IF out.refresh = 1 THEN Issue(pending, "status")
                  ELSE Issue(Issue(pending, "status"), "status")
    /\ statusFlight' = statusFlight \o [i \in 1..out.refresh |-> Request("command")]
    /\ oobStatus' = oobStatus + out.refresh
    /\ notified' = notified + Len(out.notes)
    /\ cmdSucceeded' = cmdSucceeded + (IF outcome = "parsed" /\ result.success THEN 1 ELSE 0)
    /\ lastCmd' = [handler |-> req.handler, outcome |-> outcome, result |-> result,
                   notes |-> out.notes, refresh |-> out.refresh, escaped |-> out.escaped]
    /\ UNCHANGED dispatched
    /\ UNCHANGED <<timerVars, statusVars, chartVars, hourlyVars, healthVars, logVars>>

\* The POST rejects or its body is not JSON.
CmdFails(req, kind) ==
    Complete(req, kind, NoResult, commandCatch(req.handler, FailureDescription(kind)))

\* The body parses to `result`.
CmdBodyParsed(req, result) ==
    Complete(req, "parsed", result, commandTry(req.handler, result))

PendingCommands == BagToSet(cmdPending)

NoCmd == [handler |-> "", outcome |-> "none", result |-> NoResult, notes |-> <<>>,
          refresh |-> 0, escaped |-> FALSE]

\* ----------------------------------------------------- Chart/History poller
\* The Chart/History interval fires: updateChart() and updateHourlyData() run
\* to their awaits.
ChartTick ==
    /\ \E t \in timers : t.kind = "chart"
    /\ pending["chart"] < MaxInFlight /\ pending["hourly"] < MaxInFlight
    /\ pending' = Issue(Issue(pending, "chart"), "hourly")
    /\ UNCHANGED <<timerVars, statusVars, flightVars, cmdVars, chartVars, hourlyVars, healthVars, logVars>>

\* Time-series bodies {data: [TimeSeriesPoint]}: n points of generation g, or
\* no data at all.
TimeSeries(g, n) ==
    [fields |-> {"data"},
     data |-> [i \in 1..n |-> [timestamp |-> 36000 * g + 2 * i, power_kw |-> 100 * g + i]]]

NoSeries == [TimeSeries(1, 0) EXCEPT !.fields = {}]

ChartPayloads ==
    { TimeSeries(g, n) : g \in Generations, n \in 0..MaxPoints }
    \cup { NoSeries }

\* renderChart as it would be if a body without points blanked the chart.
renderChart_blanking(chart, result) ==
    [chart EXCEPT
        !.labels = IF Has(result, "data")
                   THEN [i \in 1..Len(result.data) |->
                            toLocaleTimeString(result.data[i].timestamp)]
                   ELSE <<>>,
        !.data = IF Has(result, "data")
                 THEN [i \in 1..Len(result.data) |-> result.data[i].power_kw]
                 ELSE <<>>]

\* updateChart's try block after its awaits.
renderChart(chart, result) ==
    IF Has(result, "data") /\ Len(result.data) > 0
    THEN [chart EXCEPT
            !.labels = [i \in 1..Len(result.data) |->
                           toLocaleTimeString(result.data[i].timestamp)],
            !.data = [i \in 1..Len(result.data) |-> result.data[i].power_kw]]
    ELSE chart

\* updateChart's catch: console.error and nothing else.
updateChartCatch(chart) == chart

ChartFails ==
    /\ pending["chart"] > 0
    /\ pending' = Settle(pending, "chart")
    /\ powerChart' = updateChartCatch(powerChart)
    /\ lastChart' = [outcome |-> "failed", data |-> NoSeries]
    /\ UNCHANGED <<timerVars, statusVars, flightVars, cmdVars, hourlyVars, healthVars, logVars>>

\* ChartBodyParsed as it would be if updateChart also emptied hourly-list.
ChartBodyParsed_emptiesHourly(result) ==
    /\ pending["chart"] > 0
    /\ pending' = Settle(pending, "chart")
    /\ powerChart' = renderChart(powerChart, result)
    /\ lastChart' = [outcome |-> "rendered", data |-> result]
    /\ hourlyList' = <<>>
    /\ UNCHANGED <<lastHourly, timerVars, statusVars, flightVars, cmdVars, healthVars, logVars>>

ChartBodyParsed(result) ==
    /\ pending["chart"] > 0
    /\ pending' = Settle(pending, "chart")
    /\ powerChart' = renderChart(powerChart, result)
    /\ lastChart' = [outcome |-> "rendered", data |-> result]
    /\ UNCHANGED <<timerVars, statusVars, flightVars, cmdVars, hourlyVars, healthVars, logVars>>

\* Hourly bodies {hourly_data: [HourlyRecord]}: n records of generation g, no
\* hourly_data at all, or a batch whose last record has no accumulated_kwh.
HourlyRecord(g, i) ==
    [fields |-> {"hour", "accumulated_kwh"}, hour |-> 100 * g + i,
     accumulated_kwh |-> 1234 * i + 5 * g]

HourlyBatch(g, n) ==
    [fields |-> {"hourly_data"}, hourly_data |-> [i \in 1..n |-> HourlyRecord(g, i)]]

WellFormedHourly == { HourlyBatch(g, n) : g \in Generations, n \in 0..MaxHourly }

MalformedHourly ==
    { [HourlyBatch(g, 2) EXCEPT !.hourly_data[2].fields = {"hour"}] : g \in Generations }

HourlyPayloads ==
    WellFormedHourly \cup { [HourlyBatch(1, 0) EXCEPT !.fields = {}] } \cup MalformedHourly

NoHourly == [HourlyBatch(1, 0) EXCEPT !.fields = {}]

\* Array.prototype.slice(start) of a sequence; a negative start counts from
\* the end.
slice(seq, start) ==
    LET begin == IF start < 0 THEN Max(Len(seq) + start, 0) ELSE Min(start, Len(seq))
    IN  SubSeq(seq, begin + 1, Len(seq))

HourlyPlaceholder == [kind |-> "placeholder", label |-> 0, value |-> <<0, 2>>]

\* The forEach over recentData from position i on: one hourly-item per record,
\* stopping at a record whose accumulated_kwh is undefined.
RECURSIVE AppendHourly(_, _, _)
AppendHourly(list, recentData, i) ==
    IF i > Len(recentData) THEN [list |-> list, threw |-> FALSE]
    ELSE IF ~Has(recentData[i], "accumulated_kwh") THEN [list |-> list, threw |-> TRUE]
    ELSE AppendHourly(Append(list, [kind |-> "hourly-item",
                                    label |-> recentData[i].hour,
                                    value |-> toFixed(recentData[i].accumulated_kwh, 2)]),
                      recentData, i + 1)

\* renderHourly as it would be with slice(0, 24): the first records, not the
\* last.
renderHourly_head(list, result) ==
    IF Has(result, "hourly_data") /\ Len(result.hourly_data) > 0
    THEN AppendHourly(<<>>, SubSeq(result.hourly_data, 1,
                                   Min(HourlyWindow, Len(result.hourly_data))), 1)
    ELSE [list |-> <<HourlyPlaceholder>>, threw |-> FALSE]

\* updateHourlyData's try block after its awaits: the list is emptied, then
\* filled from the last HourlyWindow records, or given the placeholder.
renderHourly(list, result) ==
    IF Has(result, "hourly_data") /\ Len(result.hourly_data) > 0
    THEN AppendHourly(<<>>, slice(result.hourly_data, -HourlyWindow), 1)
    ELSE [list |-> <<HourlyPlaceholder>>, threw |-> FALSE]

\* updateHourlyDataCatch as it would be if the pane were emptied before the
\* fetch instead of after it.
updateHourlyDataCatch_emptied(list) == <<>>

\* updateHourlyData's catch: console.error and nothing else.
updateHourlyDataCatch(list) == list

HourlyFails(kind) ==
    /\ pending["hourly"] > 0
    /\ pending' = Settle(pending, "hourly")
    /\ hourlyList' = updateHourlyDataCatch(hourlyList)
    /\ lastHourly' = [outcome |-> kind, data |-> NoHourly]
    /\ UNCHANGED <<timerVars, statusVars, flightVars, cmdVars, chartVars, healthVars, logVars>>

HourlyBodyParsed(result) ==
    /\ pending["hourly"] > 0
    /\ pending' = Settle(pending, "hourly")
    /\ LET r == renderHourly(hourlyList, result)
       IN  /\ hourlyList' = IF r.threw THEN updateHourlyDataCatch(r.list) ELSE r.list
           /\ lastHourly' = [outcome |-> IF r.threw THEN "threw" ELSE "rendered",
                             data |-> result]
    /\ UNCHANGED <<timerVars, statusVars, flightVars, cmdVars, chartVars, healthVars, logVars>>

\* ------------------------------------------------------------ alert banner
\* document.querySelector('.modbus-section'): the markup has the section.
modbusSection == TRUE

NullElement == [id |-> 0, message |-> [prefix |-> "", text |-> ""]]

AlertState ==
    [element |-> modbusAlertElement, banners |-> sectionBanners, call |-> lastAlertCall]

\* Element.remove(): the element leaves its parent, if it has one.
remove(banners, id) == SelectSeq(banners, LAMBDA b : b.id # id)

\* document.createElement: an element that is none of the attached ones.
FreshElement(banners) ==
    CHOOSE i \in 1..(Len(banners) + 1) : \A k \in 1..Len(banners) : banners[k].id # i

\* showModbusAlert as it would be without the removal of the held banner.
showModbusAlert_stacking(A, message) ==
    LET el == [id |-> FreshElement(A.banners), message |-> message]
    IN  [element |-> el,
         banners |-> <<el>> \o A.banners,
         call |-> [op |-> "show", message |-> message,
                   run |-> IF A.call.op = "show" THEN 2 ELSE 1, after |-> A.call.op]]

\* showModbusAlert as it would be if a dismissal muted the alerts that follow.
showModbusAlert_muted(A, message) ==
    LET kept == IF A.element.id # 0 THEN remove(A.banners, A.element.id) ELSE A.banners
        el == [id |-> FreshElement(kept), message |-> message]
    IN  IF A.call.op = "hide" THEN A
        ELSE [element |-> el,
              banners |-> IF modbusSection THEN <<el>> \o kept ELSE kept,
              call |-> [op |-> "show", message |-> message,
                        run |-> IF A.call.op = "show" THEN 2 ELSE 1, after |-> A.call.op]]

\* showModbusAlert(message): the held banner is removed, a new one is created,
\* held, and inserted as the section's first child.
showModbusAlert(A, message) ==
    LET kept == IF A.element.id # 0 THEN remove(A.banners, A.element.id) ELSE A.banners
        el == [id |-> FreshElement(kept), message |-> message]
    IN  [element |-> el,
         banners |-> IF modbusSection THEN <<el>> \o kept ELSE kept,
         call |-> [op |-> "show", message |-> message,
                   run |-> IF A.call.op = "show" THEN 2 ELSE 1, after |-> A.call.op]]

\* hideModbusAlert as it would be if it only let the banner go, without
\* removing it.
hideModbusAlert_detached(A) ==
    [A EXCEPT !.element = NullElement,
              !.call = [op |-> "hide", message |-> NullElement.message, run |-> 0,
                        after |-> A.call.op]]

\* hideModbusAlert(): the held banner, if any, is removed and let go.
hideModbusAlert(A) ==
    LET call == [op |-> "hide", message |-> NullElement.message, run |-> 0,
                 after |-> A.call.op]
    IN  IF A.element.id # 0
        THEN [element |-> NullElement, banners |-> remove(A.banners, A.element.id),
              call |-> call]
        ELSE [A EXCEPT !.call = call]

SetAlertState(A) ==
    /\ modbusAlertElement' = A.element
    /\ sectionBanners' = A.banners
    /\ lastAlertCall' = A.call

\* The close button of an attached banner: onclick="hideModbusAlert()".
Dismiss ==
    /\ Len(sectionBanners) > 0
    /\ SetAlertState(hideModbusAlert(AlertState))
    /\ UNCHANGED <<modbusUI, lastHealth>>
    /\ UNCHANGED <<timerVars, pending, statusVars, flightVars, cmdVars, chartVars, hourlyVars, logVars>>

\* ------------------------------------------------------ Modbus health poller
\* The Modbus interval fires: updateModbusStatus() and updateModbusLog() run to
\* their awaits.
ModbusTick ==
    /\ \E t \in timers : t.kind = "modbus"
    /\ pending["health"] < MaxInFlight /\ pending["log"] < MaxInFlight
    /\ pending' = Issue(Issue(pending, "health"), "log")
    /\ UNCHANGED <<timerVars, statusVars, flightVars, cmdVars, chartVars, hourlyVars, healthVars, logVars>>

StatFields == {"total_requests", "total_responses", "read_requests", "write_requests",
               "error_count", "last_request_time"}

\* Entry k of communication_stats in a body of generation g.
SlaveStat(g, k) ==
    [slaveId |-> k, null |-> FALSE,
     stat |-> [fields |-> IF g = 1 THEN StatFields ELSE StatFields \ {"error_count", "last_request_time"},
               total_requests |-> 10 * k + g, total_responses |-> 10 * k,
               read_requests |-> 7 * k + g, write_requests |-> 0,
               error_count |-> g, last_request_time |-> 36000000 + 1000 * k]]

HealthOptional == {"status", "port_error", "warning", "error_detail", "message"}

\* A ModbusHealth body: the five flags in `b`; with `detail` the optional
\* strings and n entries of communication_stats, without it neither.
HealthBody(b, detail, n) ==
    [fields |-> IF detail THEN HealthOptional ELSE {"status"},
     available |-> b.available,
     actually_connected |-> b.actually_connected,
     port_available |-> b.port_available,
     server_running |-> b.server_running,
     status |-> [fields |-> IF detail THEN {"communication_stats"} ELSE {},
                 port |-> "COM3", baudrate |-> "9600", num_slaves |-> n,
                 is_running |-> b.is_running,
                 communication_stats |-> [k \in 1..n |-> SlaveStat(IF detail THEN 1 ELSE 2, k)]],
     port_error |-> "COM3 busy", warning |-> "no reply from RTU",
     error_detail |-> "pymodbus missing", message |-> "manager unavailable"]

Flags == [available : BOOLEAN, actually_connected : BOOLEAN, port_available : BOOLEAN,
          server_running : BOOLEAN, is_running : BOOLEAN]

AllTrue == [available |-> TRUE, actually_connected |-> TRUE, port_available |-> TRUE,
            server_running |-> TRUE, is_running |-> TRUE]

WellFormedHealth == { HealthBody(b, detail, 2) : b \in Flags, detail \in BOOLEAN }

\* Bodies on which the try block throws: available without a status object, or
\* a communication_stats entry that is null.
MalformedHealth ==
    { [HealthBody(b, FALSE, 2) EXCEPT !.fields = {}] :
          b \in { AllTrue, [AllTrue EXCEPT !.actually_connected = FALSE] } }
    \cup { [HealthBody(b, TRUE, 2) EXCEPT !.status.communication_stats[2].null = TRUE] :
          b \in { AllTrue, [AllTrue EXCEPT !.port_available = FALSE,
                                           !.actually_connected = FALSE] } }

HealthPayloads == WellFormedHealth \cup MalformedHealth

NoHealth == [HealthBody([AllTrue EXCEPT !.available = FALSE], FALSE, 0) EXCEPT !.fields = {}]

Msg(prefix, text) == [prefix |-> prefix, text |-> text]

\* x || fallback, for an optional string of `data`.
OrElse(data, name, value, fallback) == IF Has(data, name) THEN value ELSE fallback

\* v || 0, for a numeric field of a SlaveStat.
OrZero(stat, name, value) == IF Has(stat, name) THEN value ELSE 0

\* The card updateSlaveStats builds for one entry.
SlaveCard(e) ==
    [slaveId |-> e.slaveId,
     total_requests |-> OrZero(e.stat, "total_requests", e.stat.total_requests),
     total_responses |-> OrZero(e.stat, "total_responses", e.stat.total_responses),
     read_requests |-> OrZero(e.stat, "read_requests", e.stat.read_requests),
     write_requests |-> OrZero(e.stat, "write_requests", e.stat.write_requests),
     error_count |-> OrZero(e.stat, "error_count", e.stat.error_count),
     last_request_time |-> IF Has(e.stat, "last_request_time") /\ e.stat.last_request_time # 0
                           THEN toLocaleTimeString(e.stat.last_request_time \div 1000)
                           ELSE <<>>]

RECURSIVE AppendSlaveCards(_, _, _)
AppendSlaveCards(grid, stats, k) ==
    IF k > Len(stats) THEN [grid |-> grid, threw |-> FALSE]
    ELSE IF stats[k].null THEN [grid |-> grid, threw |-> TRUE]
    ELSE AppendSlaveCards(Append(grid, SlaveCard(stats[k])), stats, k + 1)

\* updateSlaveStats(stats): empties the grid, then one card per entry; reading a
\* field of a null entry throws.
updateSlaveStats(ui, stats) ==
    LET r == AppendSlaveCards(<<>>, stats, 1)
    IN  [ui |-> [ui EXCEPT !.grid = r.grid], threw |-> r.threw]

NumText(n) == CASE n = 0 -> "0" [] n = 1 -> "1" [] n = 2 -> "2" [] OTHER -> "n"

\* healthBranch as it would be with || for the && of its last test.
healthBranch_swapped(data) ==
    IF ~data.actually_connected
    THEN IF ~data.port_available THEN "no port"
         ELSE IF ~data.server_running THEN "server stopped"
         ELSE "not connected"
    ELSE IF data.status.is_running \/ data.port_available THEN "running"
    ELSE "stopped"

\* The if / else-if chain of updateModbusStatus under data.available: which of
\* its five blocks runs.
healthBranch(data) ==
    IF ~data.actually_connected
    THEN IF ~data.port_available THEN "no port"
         ELSE IF ~data.server_running THEN "server stopped"
         ELSE "not connected"
    ELSE IF data.status.is_running /\ data.port_available THEN "running"
    ELSE "stopped"

\* The block of the chain that `branch` names: the indicator and the alert.
renderBranch(H, ui1, data, branch) ==
    CASE branch = "no port" ->
           [ui |-> [ui1 EXCEPT !.text = "no port",
                               !.cls = "status-indicator error",
                               !.title = OrElse(data, "port_error", data.port_error,
                                                "serial port is not connected")],
            alert |-> showModbusAlert(H.alert,
                         Msg("port connection failed: ",
                             OrElse(data, "port_error", data.port_error,
                                    "serial port not found")))]
      [] branch = "server stopped" ->
           [ui |-> [ui1 EXCEPT !.text = "server stopped",
                               !.cls = "status-indicator stopped",
                               !.title = "Modbus server is not running"],
            alert |-> showModbusAlert(H.alert, Msg("", "Modbus RTU server is not running"))]
      [] branch = "not connected" ->
           [ui |-> [ui1 EXCEPT !.text = "not connected",
                               !.cls = "status-indicator error",
                               !.title = OrElse(data, "warning", data.warning,
                                                "cannot communicate with RTU")],
            alert |-> showModbusAlert(H.alert,
                         Msg("", OrElse(data, "warning", data.warning,
                                        "cannot communicate with RTU")))]
      [] branch = "running" ->
           [ui |-> [ui1 EXCEPT !.text = "running", !.cls = "status-indicator running"],
            alert |-> hideModbusAlert(H.alert)]
      [] branch = "stopped" ->
           [ui |-> [ui1 EXCEPT !.text = "stopped", !.cls = "status-indicator stopped"],
            alert |-> hideModbusAlert(H.alert)]

\* updateModbusStatus's try block after its awaits, on the parsed `data`:
\* H = [ui, alert]; the result adds whether the block threw.
updateModbusStatusTry(H, data) ==
    IF data.available
    THEN IF ~Has(data, "status") THEN [ui |-> H.ui, alert |-> H.alert, threw |-> TRUE]
         ELSE
         LET status == data.status
             ui1 == [H.ui EXCEPT !.port = status.port, !.baudrate = status.baudrate,
                                 !.slaves = NumText(status.num_slaves)]
             block == renderBranch(H, ui1, data, healthBranch(data))
             stats == IF Has(status, "communication_stats")
                      THEN status.communication_stats ELSE <<>>
             r == updateSlaveStats(block.ui, stats)
         IN  [ui |-> r.ui, alert |-> block.alert, threw |-> r.threw]
    ELSE [ui |-> [H.ui EXCEPT !.port = "-", !.baudrate = "-", !.slaves = "0",
                              !.text = "initialization failed",
                              !.cls = "status-indicator error",
                              !.title = OrElse(data, "error_detail", data.error_detail,
                                               OrElse(data, "message", data.message, "undefined"))],
          alert |-> showModbusAlert(H.alert,
                       Msg("", OrElse(data, "error_detail", data.error_detail,
                                      OrElse(data, "message", data.message,
                                             "Modbus RTU Manager initialization failed")))),
          threw |-> FALSE]

QueryError == Msg("", "error while querying Modbus status")

\* updateModbusStatusCatch as it would be if the catch also put the indicator
\* into its error state.
updateModbusStatusCatch_marking(H) ==
    [ui |-> [H.ui EXCEPT !.text = "query failed", !.cls = "status-indicator error"],
     alert |-> showModbusAlert(H.alert, QueryError)]

\* updateModbusStatus's catch: console.error, then the generic alert.
updateModbusStatusCatch(H) == [ui |-> H.ui, alert |-> showModbusAlert(H.alert, QueryError)]

HealthState == [ui |-> modbusUI, alert |-> AlertState]

HealthFails(kind) ==
    /\ pending["health"] > 0
    /\ pending' = Settle(pending, "health")
    /\ LET c == updateModbusStatusCatch(HealthState)
       IN  modbusUI' = c.ui /\ SetAlertState(c.alert)
    /\ lastHealth' = [outcome |-> kind, data |-> NoHealth]
    /\ UNCHANGED <<timerVars, statusVars, flightVars, cmdVars, chartVars, hourlyVars, logVars>>

HealthBodyParsed(data) ==
    /\ pending["health"] > 0
    /\ pending' = Settle(pending, "health")
    /\ LET r == updateModbusStatusTry(HealthState, data)
           c == IF r.threw THEN updateModbusStatusCatch([ui |-> r.ui, alert |-> r.alert])
                ELSE [ui |-> r.ui, alert |-> r.alert]
       IN  /\ modbusUI' = c.ui
           /\ SetAlertState(c.alert)
           /\ lastHealth' = [outcome |-> IF r.threw THEN "threw" ELSE "rendered",
                             data |-> data]
    /\ UNCHANGED <<timerVars, statusVars, flightVars, cmdVars, chartVars, hourlyVars, logVars>>

\* --------------------------------------------------------- Modbus log poller
\* A LogEntry.  Each optional field is "absent", "null" (address), "falsy" (0, an
\* empty list, an empty string) or "set".
LogRecord(g, i, address, quantity, values, error) ==
    [fields |-> {"event_type", "function_name"}
                \cup (IF address = "absent" THEN {} ELSE {"address"})
                \cup (IF quantity = "absent" THEN {} ELSE {"quantity"})
                \cup (IF values = "absent" THEN {} ELSE {"values"})
                \cup (IF error = "absent" THEN {} ELSE {"error"}),
     nulls |-> IF address = "null" THEN {"address"} ELSE {},
     event_type |-> IF i % 2 = 1 THEN "request" ELSE "response",
     slave_id |-> i,
     function_code |-> 3,
     function_name |-> "Read Holding Registers",
     address |-> IF address = "set" THEN 40000 + i ELSE 0,
     quantity |-> IF quantity = "set" THEN 2 ELSE 0,
     values |-> IF values = "set" THEN <<7, 8>> ELSE <<>>,
     error |-> IF error = "set" THEN "CRC mismatch" ELSE "",
     success |-> error # "set",
     timestamp |-> 36000000 * g + 1000 * i]

\* One-entry batches over every combination of the optional fields.
DetailBatches ==
    { [fields |-> {"logs"}, logs |-> <<LogRecord(1, 1, a, q, v, e)>>] :
          a \in {"absent", "null", "falsy", "set"}, q \in {"absent", "falsy", "set"},
          v \in {"absent", "falsy", "set"}, e \in {"absent", "falsy", "set"} }

\* Entry i of the batch of generation g: a request with address and quantity,
\* or a response with values.
BatchRecord(g, i) ==
    IF i % 2 = 1 THEN LogRecord(g, i, "set", "set", "absent", "absent")
    ELSE LogRecord(g, i, "set", "absent", "set", IF g = 1 THEN "absent" ELSE "set")

LogBatch(g, n) == [fields |-> {"logs"}, logs |-> [i \in 1..n |-> BatchRecord(g, i)]]

WellFormedLogs == { LogBatch(g, n) : g \in Generations, n \in 0..MaxLogs }

\* No logs at all, and a batch whose first entry has no event_type.
NoLogs == [LogBatch(1, 0) EXCEPT !.fields = {}]

MalformedLogs ==
    { [LogBatch(g, 2) EXCEPT !.logs[1].fields = {}] : g \in Generations }

LogPayloads == WellFormedLogs \cup {NoLogs} \cup MalformedLogs

\* String.prototype.toUpperCase on an event type.
toUpperCase(t) == IF t = "request" THEN "REQUEST" ELSE IF t = "response" THEN "RESPONSE" ELSE t

\* Array.prototype.reverse.
reverse(seq) == [i \in 1..Len(seq) |-> seq[Len(seq) + 1 - i]]

Piece(lead, label, num, list, text) ==
    [lead |-> lead, label |-> label, num |-> num, list |-> list, text |-> text]

\* The four tests of the detail assembly.
AddressShown(log) == Has(log, "address") /\ "address" \notin log.nulls
QuantityShown(log) == Has(log, "quantity") /\ log.quantity # 0
ValuesShown(log) == Has(log, "values") /\ Len(log.values) > 0
ErrorShown(log) == Has(log, "error") /\ log.error # ""

\* let detail = ''; ... detail += ...: the pieces appended, in source order.
logDetail(log) ==
    (IF AddressShown(log) THEN <<Piece("", "address: ", log.address, <<>>, "")>> ELSE <<>>)
    \o (IF QuantityShown(log) THEN <<Piece(", ", "quantity: ", log.quantity, <<>>, "")>> ELSE <<>>)
    \o (IF ValuesShown(log) THEN <<Piece(", ", "values: ", 0, log.values, "")>> ELSE <<>>)
    \o (IF ErrorShown(log) THEN <<Piece(", ", "error: ", 0, <<>>, log.error)>> ELSE <<>>)

\* The entry built for one record; detail = <<>> stands for no log-detail line.
logEntry(log) ==
    [kind |-> "log-entry",
     cls |-> log.event_type,
     time |-> toLocaleTimeString(log.timestamp \div 1000),
     event |-> toUpperCase(log.event_type),
     slave_id |-> log.slave_id,
     functionName |-> IF Has(log, "function_name") THEN log.function_name ELSE "Function n",
     mark |-> IF log.success THEN "ok" ELSE "failed",
     detail |-> logDetail(log)]

LogNode(kind) ==
    [kind |-> kind, cls |-> "", time |-> <<0, 0, 0>>, event |-> "", slave_id |-> 0,
     functionName |-> "", mark |-> "", detail |-> <<>>]

LogPlaceholder == LogNode("placeholder")

LogCleared == LogNode("cleared")

\* The forEach over the reversed logs from position i on, stopping at a record
\* whose event_type is undefined (toUpperCase of undefined throws).
RECURSIVE AppendLogs(_, _, _)
AppendLogs(pane, logs, i) ==
    IF i > Len(logs) THEN [pane |-> pane, threw |-> FALSE]
    ELSE IF ~Has(logs[i], "event_type") THEN [pane |-> pane, threw |-> TRUE]
    ELSE AppendLogs(Append(pane, logEntry(logs[i])), logs, i + 1)

\* renderLog as it would be without reverse().
renderLog_serverOrder(pane, data) ==
    IF Has(data, "logs") /\ Len(data.logs) > 0
    THEN AppendLogs(<<>>, data.logs, 1)
    ELSE [pane |-> <<LogPlaceholder>>, threw |-> FALSE]

\* updateModbusLog's try block after its awaits: the pane is emptied, then
\* filled from the reversed batch, or given the placeholder.
renderLog(pane, data) ==
    IF Has(data, "logs") /\ Len(data.logs) > 0
    THEN AppendLogs(<<>>, reverse(data.logs), 1)
    ELSE [pane |-> <<LogPlaceholder>>, threw |-> FALSE]

\* updateModbusLog's catch: console.error and nothing else.
updateModbusLogCatch(pane) == pane

LogFails(kind) ==
    /\ pending["log"] > 0
    /\ pending' = Settle(pending, "log")
    /\ modbusLog' = updateModbusLogCatch(modbusLog)
    /\ lastLog' = [outcome |-> kind, data |-> NoLogs,
                   cleared |-> modbusLog = <<LogCleared>>]
    /\ UNCHANGED <<timerVars, statusVars, flightVars, cmdVars, chartVars, hourlyVars, healthVars>>

LogBodyParsed(data) ==
    /\ pending["log"] > 0
    /\ pending' = Settle(pending, "log")
    /\ LET r == renderLog(modbusLog, data)
       IN  /\ modbusLog' = IF r.threw THEN updateModbusLogCatch(r.pane) ELSE r.pane
           /\ lastLog' = [outcome |-> IF r.threw THEN "threw" ELSE "rendered", data |-> data,
                          cleared |-> modbusLog = <<LogCleared>>]
    /\ UNCHANGED <<timerVars, statusVars, flightVars, cmdVars, chartVars, hourlyVars, healthVars>>

\* The click listener of btn-clear-log as it would be if clearing also
\* abandoned the log fetches in flight.
ClearLog_abandoning ==
    /\ loaded
    /\ modbusLog' = <<LogCleared>>
    /\ pending' = [pending EXCEPT !["log"] = 0]
    /\ UNCHANGED lastLog
    /\ UNCHANGED <<timers, updateInterval, chartInterval, loaded, statusVars, flightVars,
                   cmdVars, chartVars, hourlyVars, healthVars>>

\* The click listener of btn-clear-log.
ClearLog ==
    /\ loaded
    /\ modbusLog' = <<LogCleared>>
    /\ UNCHANGED lastLog
    /\ UNCHANGED <<timerVars, pending, statusVars, flightVars, cmdVars, chartVars, hourlyVars, healthVars>>

\* ------------------------------------------------------------ specifications
Init ==
    /\ loaded = FALSE
    /\ updateInterval = 0
    /\ chartInterval = 0
    /\ timers = {}
    /\ pending = [p \in Pollers |-> 0]
    /\ statusFlight = <<>>
    /\ cmdPending = EmptyBag
    /\ powerChart = [created |-> FALSE, labels |-> <<>>, data |-> <<>>]
    /\ statusUI = [plantId |-> "", updateTime |-> "", totalPower |-> <<0, 2>>,
                   utilization |-> <<0, 2>>, reactivePower |-> <<0, 2>>,
                   ratedCapacity |-> <<0, 2>>, grid |-> <<>>]
    /\ hourlyList = <<>>
    /\ modbusUI = [text |-> "", cls |-> "status-indicator", title |-> "", port |-> "",
                   baudrate |-> "", slaves |-> "", grid |-> <<>>]
    /\ modbusAlertElement = NullElement
    /\ sectionBanners = <<>>
    /\ modbusLog = <<>>
    /\ oobStatus = 0
    /\ cmdSucceeded = 0
    /\ dispatched = 0
    /\ notified = 0
    /\ lastStatus = [outcome |-> "none", data |-> NoSnapshot, request |-> NoRequest]
    /\ lastCmd = NoCmd
    /\ lastChart = [outcome |-> "none", data |-> NoSeries]
    /\ lastHourly = [outcome |-> "none", data |-> NoHourly]
    /\ lastHealth = [outcome |-> "none", data |-> NoHealth]
    /\ lastLog = [outcome |-> "none", data |-> NoLogs, cleared |-> FALSE]
    /\ lastAlertCall = [op |-> "none", message |-> NullElement.message, run |-> 0,
                        after |-> "none"]

FailureKinds == {"rejected", "notjson"}

\* The Status poller over every Status body.
StatusNext ==
    \/ DOMContentLoaded
    \/ StatusTick
    \/ \E kind \in FailureKinds : StatusFails(kind)
    \/ \E data \in StatusPayloads, now \in Clock : StatusBodyParsed(data, now)

SpecStatus == Init /\ [][StatusNext]_vars

\* The Status and Chart/History timers under repeated starts, before and after
\* the page has loaded, every fetch failing.
RestartNext ==
    \/ DOMContentLoaded
    \/ CallStartAutoUpdate
    \/ CallStartChartUpdate
    \/ StatusTick
    \/ ChartTick
    \/ StatusFails("rejected")
    \/ ChartFails
    \/ HourlyFails("rejected")

SpecRestart == Init /\ [][RestartNext]_vars

\* The response bodies the specifications below hand to a poller when they
\* follow one backend rather than every body: the snapshot of one inverter,
\* and the chart, hourly, health and log bodies of the first generation by
\* their number of entries.
SampleBodies ==
    [status |-> Snapshot(1, 1),
     chart |-> [n \in 0..MaxPoints |-> TimeSeries(1, n)],
     hourly |-> [n \in 0..2 |-> HourlyBatch(1, n)],
     health |-> [n \in 1..2 |-> HealthBody(AllTrue, TRUE, n)],
     log |-> [n \in 0..2 |-> LogBatch(1, n)]]

\* The command handlers, with the Status poller on one snapshot.
CommandNext ==
    \/ DOMContentLoaded
    \/ StatusTick
    \/ StatusBodyParsed(SampleBodies.status, "10:00:00")
    \/ \E h \in Commands, index \in -1..(MaxInverters - 1) : Dispatch(h, index)
    \/ \E req \in PendingCommands, kind \in FailureKinds : CmdFails(req, kind)
    \/ \E req \in PendingCommands, result \in CommandResults : CmdBodyParsed(req, result)

SpecCommand == Init /\ [][CommandNext]_vars

\* The setpoint handlers over every value of their elements.
SetpointNext ==
    \/ DOMContentLoaded
    \/ StatusBodyParsed(SampleBodies.status, "10:00:00")
    \/ \E h \in Setpoints, index \in {-1, 0} : \E value \in ValuesOf(h) : Click(h, index, value)
    \/ \E req \in PendingCommands, kind \in FailureKinds : CmdFails(req, kind)
    \/ \E req \in PendingCommands, result \in CommandResults : CmdBodyParsed(req, result)

SpecSetpoint == Init /\ [][SetpointNext]_vars

\* The Chart/History poller over every hourly body.
HourlyNext ==
    \/ DOMContentLoaded
    \/ ChartTick
    \/ ChartFails
    \/ ChartBodyParsed(SampleBodies.chart[2])
    \/ \E kind \in FailureKinds : HourlyFails(kind)
    \/ \E result \in HourlyPayloads : HourlyBodyParsed(result)

SpecHourly == Init /\ [][HourlyNext]_vars

\* The Chart/History poller over every time-series body.
ChartNext ==
    \/ DOMContentLoaded
    \/ ChartTick
    \/ ChartFails
    \/ \E result \in ChartPayloads : ChartBodyParsed(result)
    \/ HourlyFails("rejected")
    \/ HourlyBodyParsed(SampleBodies.hourly[1])

SpecChart == Init /\ [][ChartNext]_vars

\* The Modbus poller over every health body, its log cycles failing.
HealthNext ==
    \/ DOMContentLoaded
    \/ ModbusTick
    \/ Dismiss
    \/ \E kind \in FailureKinds : HealthFails(kind)
    \/ \E data \in HealthPayloads : HealthBodyParsed(data)
    \/ LogFails("rejected")

SpecHealth == Init /\ [][HealthNext]_vars

\* One health body for each branch that shows the alert (manager unavailable,
\* port missing, server stopped, no reply), and the bodies without a connection
\* on which the try block throws.
DegradedHealth ==
    { HealthBody([AllTrue EXCEPT !.available = FALSE], TRUE, 1),
      HealthBody([AllTrue EXCEPT !.actually_connected = FALSE,
                                 !.port_available = FALSE], TRUE, 1),
      HealthBody([AllTrue EXCEPT !.actually_connected = FALSE,
                                 !.server_running = FALSE], FALSE, 1),
      HealthBody([AllTrue EXCEPT !.actually_connected = FALSE], TRUE, 1) }
    \cup { d \in MalformedHealth : ~d.actually_connected }

\* The Modbus poller against a backend that stays degraded: every health
\* response is a failure or a degraded body.  The interval keeps firing and
\* every fetch settles.

DegradedNext ==
    \/ DOMContentLoaded
    \/ ModbusTick
    \/ Dismiss
    \/ \E kind \in FailureKinds : HealthFails(kind)
    \/ \E data \in DegradedHealth : HealthBodyParsed(data)
    \/ LogFails("rejected")

SpecDegradedFair ==
    /\ Init /\ [][DegradedNext]_vars
    /\ WF_vars(DOMContentLoaded)
    /\ SF_vars(ModbusTick)
    /\ WF_vars((\E kind \in FailureKinds : HealthFails(kind))
                  \/ (\E data \in DegradedHealth : HealthBodyParsed(data)))
    /\ WF_vars(LogFails("rejected"))

\* The Modbus poller over every log body, its health cycles on one body.
LogNext ==
    \/ DOMContentLoaded
    \/ ModbusTick
    \/ ClearLog
    \/ HealthBodyParsed(SampleBodies.health[2])
    \/ \E kind \in FailureKinds : LogFails(kind)
    \/ \E data \in LogPayloads \cup DetailBatches : LogBodyParsed(data)

SpecLog == Init /\ [][LogNext]_vars

\* The hourly pane and the log pane together: both timers, the clear button,
\* failing and parsed responses of both cycles.
PaneNext ==
    \/ DOMContentLoaded
    \/ ChartTick
    \/ ModbusTick
    \/ ClearLog
    \/ ChartFails
    \/ HealthFails("rejected")
    \/ \E kind \in FailureKinds : HourlyFails(kind)
    \/ HourlyBodyParsed(SampleBodies.hourly[0])
    \/ HourlyBodyParsed(SampleBodies.hourly[2])
    \/ \E kind \in FailureKinds : LogFails(kind)
    \/ LogBodyParsed(SampleBodies.log[0])
    \/ LogBodyParsed(SampleBodies.log[2])

SpecPanes == Init /\ [][PaneNext]_vars

\* The requests in flight, over all pollers and handlers.
InFlight(pend, cmds) ==
    pend["status"] + pend["chart"] + pend["hourly"] + pend["health"] + pend["log"]
    + BagCardinality(cmds)

\* A timer fires only while fewer than MaxOutstanding requests are in flight.
Room == InFlight(pending, cmdPending) < MaxOutstanding

\* The three timers and the five pollers they drive, every cycle either
\* failing or rendering one body.
PollerNext ==
    \/ DOMContentLoaded
    \/ StatusTick /\ Room
    \/ ChartTick /\ Room
    \/ ModbusTick /\ Room
    \/ StatusFails("rejected")
    \/ StatusBodyParsed(SampleBodies.status, "10:00:00")
    \/ ChartFails
    \/ ChartBodyParsed(SampleBodies.chart[1])
    \/ HourlyFails("notjson")
    \/ HourlyBodyParsed(SampleBodies.hourly[1])
    \/ HealthFails("rejected")
    \/ HealthBodyParsed(SampleBodies.health[1])
    \/ LogFails("notjson")
    \/ LogBodyParsed(SampleBodies.log[1])

SpecPollers == Init /\ [][PollerNext]_vars

\* The document loads, setInterval fires each timer again and again, and
\* every request in flight is answered or fails in the end.
SpecPollersFair ==
    /\ SpecPollers
    /\ WF_vars(DOMContentLoaded)
    /\ SF_vars(StatusTick /\ Room)
    /\ SF_vars(ChartTick /\ Room)
    /\ SF_vars(ModbusTick /\ Room)
    /\ WF_vars(StatusFails("rejected") \/ StatusBodyParsed(SampleBodies.status, "10:00:00"))
    /\ WF_vars(ChartFails \/ ChartBodyParsed(SampleBodies.chart[1]))
    /\ WF_vars(HourlyFails("notjson") \/ HourlyBodyParsed(SampleBodies.hourly[1]))
    /\ WF_vars(HealthFails("rejected") \/ HealthBodyParsed(SampleBodies.health[1]))
    /\ WF_vars(LogFails("notjson") \/ LogBodyParsed(SampleBodies.log[1]))

\* Every region's writer together: the five pollers rendering one body each,
\* the banner's close button, the clear-log button and one command.
FrameNext ==
    \/ DOMContentLoaded
    \/ StatusTick /\ Room
    \/ ChartTick /\ Room
    \/ ModbusTick /\ Room
    \/ StatusBodyParsed(SampleBodies.status, "10:00:00")
    \/ ChartBodyParsed(SampleBodies.chart[1])
    \/ HourlyBodyParsed(SampleBodies.hourly[1])
    \/ HealthFails("rejected")
    \/ HealthBodyParsed(SampleBodies.health[1])
    \/ LogBodyParsed(SampleBodies.log[1])
    \/ Dismiss
    \/ ClearLog
    \/ Dispatch("setIrradiance", -1)
    \/ \E req \in PendingCommands : CmdFails(req, "notjson")
    \/ \E req \in PendingCommands, result \in { r \in CommandResults : r.success } :
          CmdBodyParsed(req, result)

SpecFrame == Init /\ [][FrameNext]_vars

\* Every timer, poller, handler and button together: each cycle failing or
\* rendering one body, two of the commands.
Next ==
    \/ PollerNext
    \/ Dismiss
    \/ ClearLog
    \/ \E h \in {"controlInverter", "setIrradiance"}, index \in {-1, 0} :
           Dispatch(h, index) /\ Room
    \/ \E req \in PendingCommands : CmdFails(req, "rejected")
    \/ \E req \in PendingCommands, result \in CommandResults : CmdBodyParsed(req, result)

Spec == Init /\ [][Next]_vars

\* ------------------------------------------------------------------ claims
StatusCycleEnds == pending'["status"] < pending["status"]
HealthCycleEnds == pending'["health"] < pending["health"]
CommandEnds == cmdPending' # cmdPending /\ dispatched' = dispatched

\* C1.  A failed Status poll (the fetch rejects, the body is not JSON, or the
\* parsed body is no well-formed snapshot and the render throws) leaves the
\* plant id, the update time, the four summary values and the card list as
\* they were before the cycle.
C1_FailedPollLeavesRender ==
    [][(StatusCycleEnds /\ lastStatus'.outcome # "rendered") => statusUI' = statusUI]_vars

\* C2.  At most one banner is attached at any time, and after a call of
\* showModbusAlert (a second one in a row included) the one attached banner is
\* the held one and carries that call's message; after hideModbusAlert none is.
C2_OneBanner ==
    /\ Len(sectionBanners) <= 1
    /\ lastAlertCall.op = "show" =>
           /\ sectionBanners = <<modbusAlertElement>>
           /\ modbusAlertElement.message = lastAlertCall.message
    /\ lastAlertCall.op = "hide" => sectionBanners = <<>>

C2_Witness ==
    /\ lastAlertCall.op = "show" /\ lastAlertCall.run = 2
    /\ Len(sectionBanners) = 1
    /\ lastHealth.outcome = "rendered"

\* The first matching branch of the ordered tree over the five fields: the
\* indicator text and class, and whether the alert is shown.
TreeLeaf(available, connected, port, server, running) ==
    CASE ~available -> [text |-> "initialization failed", cls |-> "status-indicator error",
                        alert |-> TRUE]
      [] available /\ ~connected /\ ~port ->
            [text |-> "no port", cls |-> "status-indicator error", alert |-> TRUE]
      [] available /\ ~connected /\ port /\ ~server ->
            [text |-> "server stopped", cls |-> "status-indicator stopped", alert |-> TRUE]
      [] available /\ ~connected /\ port /\ server ->
            [text |-> "not connected", cls |-> "status-indicator error", alert |-> TRUE]
      [] available /\ connected /\ running /\ port ->
            [text |-> "running", cls |-> "status-indicator running", alert |-> FALSE]
      [] OTHER -> [text |-> "stopped", cls |-> "status-indicator stopped", alert |-> FALSE]

\* C3.  A health cycle that completes its render sets the indicator and the
\* alert to the leaf of the tree its five fields select, whatever the UI
\* showed before and whatever else the body holds.
C3_HealthTree ==
    [][(HealthCycleEnds /\ lastHealth'.outcome = "rendered") =>
          LET d == lastHealth'.data
              leaf == TreeLeaf(d.available, d.actually_connected, d.port_available,
                               d.server_running, d.status.is_running)
          IN  /\ modbusUI'.text = leaf.text
              /\ modbusUI'.cls = leaf.cls
              /\ (Len(sectionBanners') = 1) = leaf.alert
              /\ (Len(sectionBanners') = 0) = ~leaf.alert]_vars

C3_Witness ==
    /\ lastHealth.outcome = "rendered"
    /\ lastHealth.data.available /\ ~lastHealth.data.actually_connected
    /\ lastHealth.data.port_available /\ ~lastHealth.data.server_running
    /\ modbusUI.text = "server stopped"
    /\ Len(sectionBanners) = 1

\* C4.  The updateStatus calls made by command handlers are as many as the
\* commands that completed with success = true, and each handler that ends
\* made one such call if its parsed response had success = true and none
\* otherwise.
C4_OneRefreshPerSuccess ==
    /\ oobStatus = cmdSucceeded
    /\ lastCmd.outcome # "none" =>
           lastCmd.refresh = IF lastCmd.outcome = "parsed" /\ lastCmd.result.success
                             THEN 1 ELSE 0

C4_Witness ==
    /\ dispatched = 2 /\ cmdPending = EmptyBag
    /\ cmdSucceeded = 1 /\ oobStatus = 1
    /\ lastCmd.outcome = "parsed" /\ ~lastCmd.result.success

\* C5.  After a parsed hourly response with N records the pane holds the last
\* min(N, 24) of them, in order, and nothing else; with N = 0 or no
\* hourly_data it holds the placeholder alone.
C5_HourlyTail ==
    lastHourly.outcome = "rendered" =>
        LET d == lastHourly.data
            N == IF Has(d, "hourly_data") THEN Len(d.hourly_data) ELSE 0
            shown == Min(N, 24)
        IN  IF N = 0 THEN hourlyList = <<HourlyPlaceholder>>
            ELSE /\ Len(hourlyList) = shown
                 /\ \A i \in 1..shown :
                       /\ hourlyList[i].kind = "hourly-item"
                       /\ hourlyList[i].label = d.hourly_data[N - shown + i].hour
                       /\ hourlyList[i].value =
                              toFixed(d.hourly_data[N - shown + i].accumulated_kwh, 2)

C5_Witness ==
    /\ lastHourly.outcome = "rendered"
    /\ Len(lastHourly.data.hourly_data) = 26
    /\ Len(hourlyList) = 24
    /\ hourlyList[1].label = lastHourly.data.hourly_data[3].hour

\* C6.  After a parsed log response with K entries the pane, unless cleared
\* by hand since, holds K entries, entry i being entry K + 1 - i of the batch,
\* and nothing else; with K = 0 it holds the placeholder alone.
C6_LogReversed ==
    (lastLog.outcome = "rendered" /\ modbusLog # <<LogCleared>>) =>
        LET d == lastLog.data
            K == IF Has(d, "logs") THEN Len(d.logs) ELSE 0
        IN  IF K = 0 THEN modbusLog = <<LogPlaceholder>>
            ELSE /\ Len(modbusLog) = K
                 /\ \A i \in 1..K :
                       /\ modbusLog[i].kind = "log-entry"
                       /\ modbusLog[i].slave_id = d.logs[K + 1 - i].slave_id
                       /\ modbusLog[i].time =
                              toLocaleTimeString(d.logs[K + 1 - i].timestamp \div 1000)

C6_Witness ==
    /\ lastLog.outcome = "rendered"
    /\ Len(lastLog.data.logs) = 3
    /\ Len(modbusLog) = 3
    /\ modbusLog[1].slave_id = 3 /\ modbusLog[3].slave_id = 1

\* The present optional fields of a record in the order address, quantity,
\* values, error, joined by ", ": no separator before the first.
RECURSIVE Joined(_)
Joined(pieces) ==
    IF pieces = <<>> THEN <<>>
    ELSE <<[Head(pieces) EXCEPT !.lead = ""]>>
         \o [i \in 1..(Len(pieces) - 1) |-> [pieces[i + 1] EXCEPT !.lead = ", "]]

PresentPieces(log) ==
    (IF AddressShown(log) THEN <<Piece("", "address: ", log.address, <<>>, "")>> ELSE <<>>)
    \o (IF QuantityShown(log) THEN <<Piece("", "quantity: ", log.quantity, <<>>, "")>> ELSE <<>>)
    \o (IF ValuesShown(log) THEN <<Piece("", "values: ", 0, log.values, "")>> ELSE <<>>)
    \o (IF ErrorShown(log) THEN <<Piece("", "error: ", 0, <<>>, log.error)>> ELSE <<>>)

\* C7.  The detail line of every rendered entry is the present optional fields
\* of its record, in the order address, quantity, values, error, joined by
\* ", " with no separator before the first; it is left out exactly when none
\* is present.
C7_DetailJoined ==
    (lastLog.outcome = "rendered" /\ modbusLog # <<LogCleared>>
        /\ Has(lastLog.data, "logs")) =>
        \A i \in 1..Len(lastLog.data.logs) :
            modbusLog[i].detail =
                Joined(PresentPieces(lastLog.data.logs[Len(lastLog.data.logs) + 1 - i]))

\* C8.  After a Status cycle that rendered a well-formed snapshot the grid has
\* one card per inverter, card i built from inverters[i] and pv_generators[i]
\* with the controls bound to index i (from 0), and the plant id and summary
\* are the snapshot's: nothing of an earlier snapshot is left.
C8_CardsMatchSnapshot ==
    (lastStatus.outcome = "rendered" /\ WellFormed(lastStatus.data)) =>
        LET d == lastStatus.data
        IN  /\ statusUI.plantId = d.plant_id
            /\ statusUI.totalPower = toFixed(d.total_power.total_active_power_kw, 2)
            /\ statusUI.ratedCapacity = toFixed(d.total_capacity_mva, 2)
            /\ Len(statusUI.grid) = Len(d.inverters)
            /\ \A i \in 1..Len(d.inverters) :
                  LET card == statusUI.grid[i]
                  IN  /\ card.index = i - 1
                      /\ card.title = d.inverters[i].id
                      /\ card.badge = (IF d.inverters[i].is_on THEN "ON" ELSE "OFF")
                      /\ card.active_power = toFixed(d.inverters[i].monitoring.active_power, 2)
                      /\ card.pv_power = toFixed(d.pv_generators[i].monitoring.power_generation, 2)
                      /\ card.pv_voltage = toFixed(d.pv_generators[i].monitoring.voltage, 1)
                      /\ card.mode_selected = d.pv_generators[i].control_mode
                      /\ card.p_control = d.pv_generators[i].p_control_percent

C8_Witness ==
    /\ lastStatus.outcome = "rendered" /\ WellFormed(lastStatus.data)
    /\ Len(lastStatus.data.inverters) = 2
    /\ Len(statusUI.grid) = 2
    /\ statusUI.grid[2].title = "INV-002"
    /\ statusUI.plantId = "PLANT-2"

\* C9.  Every handler that ends (its request resolved or rejected) leaves the
\* flight, shows exactly one notification (success or error with the server's
\* message, or an error with the handler's prefix and the failure's
\* description) and lets no error out.
C9_OneNotification ==
    [][CommandEnds =>
          /\ BagCardinality(cmdPending') = BagCardinality(cmdPending) - 1
          /\ ~lastCmd'.escaped
          /\ Len(lastCmd'.notes) = 1
          /\ LET note == lastCmd'.notes[1]
             IN  CASE lastCmd'.outcome = "parsed" /\ lastCmd'.result.success ->
                        note = [type |-> "success", prefix |-> "",
                                message |-> lastCmd'.result.message]
                   [] lastCmd'.outcome = "parsed" /\ ~lastCmd'.result.success ->
                        note = [type |-> "error", prefix |-> "",
                                message |-> lastCmd'.result.message]
                   [] OTHER ->
                        /\ note.type = "error"
                        /\ note.prefix = ErrorPrefix(lastCmd'.handler)
                        /\ note.message = FailureDescription(lastCmd'.outcome)]_vars

C9_Witness ==
    /\ lastCmd.handler = "setTemperature" /\ lastCmd.outcome = "notjson"
    /\ Len(lastCmd.notes) = 1
    /\ lastCmd.notes[1].prefix = "temperature error: "
    /\ cmdPending = EmptyBag

Degraded(d) == ~d.available \/ ~d.actually_connected

\* C10.  Whenever a banner is attached, the health cycle that completed last
\* had a parsed response that matched a degraded branch.
C10_BannerMeansDegraded ==
    Len(sectionBanners) > 0 =>
        lastHealth.outcome = "rendered" /\ Degraded(lastHealth.data)

\* C10, amended.  Whenever a banner is attached, the health cycle that
\* completed last either rendered a response that matched a degraded branch or
\* ended in the catch (the fetch rejected, the body was not JSON, or the render
\* threw).
C10_BannerMeansDegradedOrFailed ==
    Len(sectionBanners) > 0 =>
        \/ lastHealth.outcome = "rendered" /\ Degraded(lastHealth.data)
        \/ lastHealth.outcome \in {"rejected", "notjson", "threw"}

C10_Witness ==
    /\ Len(sectionBanners) = 1
    /\ lastHealth.outcome = "rejected"
    /\ sectionBanners[1].message = QueryError

\* The communication_stats of a parsed health body: empty when the map, or the
\* status object that holds it, is absent.
StatsOf(d) ==
    IF Has(d, "status") /\ Has(d.status, "communication_stats")
    THEN d.status.communication_stats ELSE <<>>

\* C11.  After every health cycle whose response was parsed and rendered,
\* whichever branch it matched (available = false included), the slave grid
\* holds one card per entry of that response's communication_stats, in map
\* order, and no card of an earlier cycle.
C11_GridMatchesStats ==
    lastHealth.outcome = "rendered" =>
        /\ Len(modbusUI.grid) = Len(StatsOf(lastHealth.data))
        /\ \A k \in 1..Len(modbusUI.grid) :
              modbusUI.grid[k].slaveId = StatsOf(lastHealth.data)[k].slaveId

\* What updateUI leaves of a snapshot rendered at clock reading `now`, over an
\* empty page.
Rendered(data, now) ==
    updateUI([plantId |-> "", updateTime |-> "", totalPower |-> <<0, 2>>,
              utilization |-> <<0, 2>>, reactivePower |-> <<0, 2>>,
              ratedCapacity |-> <<0, 2>>, grid |-> <<>>], data, now).ui

IsPrefix(s, t) == Len(s) <= Len(t) /\ SubSeq(t, 1, Len(s)) = s

\* C12.  With several updateStatus calls waiting, none is cancelled: a call
\* leaves the flight only by its own response, one per step.  The response of
\* any of them, whatever its place in the order of issue, applies on arrival:
\* a rendered one makes the page that snapshot's render, whatever was shown
\* before, and a rejected or non-JSON one changes nothing, so the page is that
\* of the successful response that arrived last.
C12_LastArrivalWins ==
    [][/\ StatusCycleEnds =>
            /\ Len(statusFlight') = Len(statusFlight) - 1
            /\ lastStatus'.outcome \in {"rejected", "notjson"} => statusUI' = statusUI
            /\ lastStatus'.outcome = "rendered" =>
                   \E now \in Clock : statusUI' = Rendered(lastStatus'.data, now)
       /\ ~StatusCycleEnds => IsPrefix(statusFlight, statusFlight') /\ statusUI' = statusUI]_vars

C12_Witness ==
    /\ lastStatus.outcome = "rendered"
    /\ lastStatus.request.origin = "load" /\ lastStatus.request.overtaken
    /\ statusUI.plantId = "PLANT-2" /\ Len(statusUI.grid) = 1
    /\ Len(statusFlight) = 1

Issued(p) == pending'[p] - pending[p]

SomeCycleEnds == \E p \in Pollers : pending'[p] < pending[p]

\* C13.  No cycle's outcome stops a poller: the three timers stay set from
\* startup on; a step that ends a cycle, failed or not, issues no request (no
\* retry); every step that issues requests after startup is one tick and
\* issues that timer's requests, one each, whatever the earlier cycles did;
\* and with the timers firing again and again each poller issues requests
\* infinitely often.
C13_PollersKeepGoing ==
    /\ [](loaded => { t.kind : t \in timers } = {"status", "chart", "modbus"})
    /\ [][SomeCycleEnds =>
             /\ timers' = timers
             /\ \A p \in Pollers : Issued(p) <= 0]_vars
    /\ [][(loaded /\ \E p \in Pollers : Issued(p) > 0) =>
             \/ [p \in Pollers |-> Issued(p)] =
                    [p \in Pollers |-> IF p = "status" THEN 1 ELSE 0]
             \/ [p \in Pollers |-> Issued(p)] =
                    [p \in Pollers |-> IF p \in {"chart", "hourly"} THEN 1 ELSE 0]
             \/ [p \in Pollers |-> Issued(p)] =
                    [p \in Pollers |-> IF p \in {"health", "log"} THEN 1 ELSE 0]]_vars
    /\ []<><<StatusTick>>_vars
    /\ []<><<ChartTick>>_vars
    /\ []<><<ModbusTick>>_vars

C13_Witness ==
    /\ lastStatus.outcome = "rejected" /\ lastChart.outcome = "failed"
    /\ lastHourly.outcome = "notjson" /\ lastHealth.outcome = "rejected"
    /\ lastLog.outcome = "notjson"
    /\ pending["status"] = 1 /\ statusFlight[1].origin = "tick"

\* A step in which a poller's cycle ends in its catch block.
PollerCycleFails ==
    \/ StatusCycleEnds /\ lastStatus'.outcome # "rendered"
    \/ pending'["chart"] < pending["chart"] /\ lastChart'.outcome # "rendered"
    \/ pending'["hourly"] < pending["hourly"] /\ lastHourly'.outcome # "rendered"
    \/ HealthCycleEnds /\ lastHealth'.outcome # "rendered"
    \/ pending'["log"] < pending["log"] /\ lastLog'.outcome # "rendered"

\* C14.  Every failed cycle of every poller is caught and shows the user a
\* notification: a showMessage call or the alert banner.
C14_FailureNotifies ==
    [][PollerCycleFails =>
          \/ notified' > notified
          \/ lastAlertCall'.op = "show" /\ sectionBanners' # sectionBanners]_vars

ChartCycleEnds == pending'["chart"] < pending["chart"]
HourlyCycleEnds == pending'["hourly"] < pending["hourly"]
LogCycleEnds == pending'["log"] < pending["log"]

statusRegion == statusUI
chartRegion == powerChart
hourlyRegion == hourlyList
healthRegion == <<modbusUI, modbusAlertElement, sectionBanners>>
logRegion == modbusLog

\* C15.  Each region has one writer.  A Status cycle changes nothing but the
\* plant summary and card list, a time-series cycle nothing but the chart, an
\* hourly cycle nothing but the hourly pane, a health cycle nothing but the
\* Modbus fields, slave grid and alert slot, a log cycle nothing but the log
\* pane; and a region changes only in a step of its cycle (the chart also at
\* its creation, the alert slot also at a dismissal, the log pane also at a
\* clear), never in a command handler's step.
C15_SingleWriter ==
    [][/\ StatusCycleEnds =>
            UNCHANGED <<chartRegion, hourlyRegion, healthRegion, logRegion>>
       /\ ChartCycleEnds =>
            UNCHANGED <<statusRegion, hourlyRegion, healthRegion, logRegion>>
       /\ HourlyCycleEnds =>
            UNCHANGED <<statusRegion, chartRegion, healthRegion, logRegion>>
       /\ HealthCycleEnds =>
            UNCHANGED <<statusRegion, chartRegion, hourlyRegion, logRegion>>
       /\ LogCycleEnds =>
            UNCHANGED <<statusRegion, chartRegion, hourlyRegion, healthRegion>>
       /\ statusRegion' # statusRegion => StatusCycleEnds
       /\ chartRegion' # chartRegion => ChartCycleEnds \/ ~loaded
       /\ hourlyRegion' # hourlyRegion => HourlyCycleEnds
       /\ modbusUI' # modbusUI => HealthCycleEnds
       /\ healthRegion' # healthRegion => HealthCycleEnds \/ lastAlertCall'.op = "hide"
       /\ logRegion' # logRegion => LogCycleEnds \/ logRegion' = <<LogCleared>>
       /\ (cmdPending' # cmdPending) =>
            UNCHANGED <<statusRegion, chartRegion, hourlyRegion, healthRegion, logRegion>>]_vars

C15_Witness ==
    /\ lastStatus.outcome = "rendered" /\ Len(statusUI.grid) = 1
    /\ lastChart.outcome = "rendered" /\ Len(powerChart.data) = 1
    /\ lastHourly.outcome = "rendered" /\ Len(hourlyList) = 1
    /\ lastHealth.outcome = "rendered" /\ modbusUI.text = "running"
    /\ lastLog.outcome = "rendered" /\ Len(modbusLog) = 1 /\ modbusLog[1].kind = "log-entry"
    /\ lastCmd.outcome = "parsed" /\ pending["status"] = 1

\* C16.  A time-series cycle that fails, or whose body has no data or an empty
\* data sequence, leaves the chart's labels and data set as they were; a cycle
\* with at least one point replaces both, one label and one value per point in
\* the received order.  The label list and the data list always have the same
\* length.
C16_ChartReplacedOrKept ==
    /\ [][ChartCycleEnds =>
            LET r == lastChart'
                points == r.data.data
            IN  IF r.outcome = "rendered" /\ Has(r.data, "data") /\ Len(points) > 0
                THEN /\ Len(powerChart'.labels) = Len(points)
                     /\ Len(powerChart'.data) = Len(points)
                     /\ \A i \in 1..Len(points) :
                          /\ powerChart'.labels[i] = toLocaleTimeString(points[i].timestamp)
                          /\ powerChart'.data[i] = points[i].power_kw
                ELSE powerChart' = powerChart]_vars
    /\ [](Len(powerChart.labels) = Len(powerChart.data))

C16_Witness ==
    /\ lastChart.outcome = "rendered"
    /\ Has(lastChart.data, "data") /\ Len(lastChart.data.data) = 0
    /\ Len(powerChart.data) = MaxPoints
    /\ powerChart.data[1] = TimeSeries(2, 1).data[1].power_kw

Startup == ~loaded /\ loaded'

TimerFires == loaded /\ cmdPending' = cmdPending /\ \E p \in Pollers : Issued(p) > 0

\* C17.  The DOMContentLoaded step sets the three timers and issues, in that
\* same step and so before any tick, exactly one Status fetch, one time-series
\* fetch and one hourly fetch (and one health and one log fetch); nothing is
\* requested before it.  Afterwards a step of the Status timer issues exactly
\* one Status fetch and nothing else, and a step of the Chart/History timer
\* exactly one time-series fetch and one hourly fetch and nothing else.
C17_StartupThenTicks ==
    /\ [](~loaded => /\ timers = {}
                     /\ \A p \in Pollers : pending[p] = 0
                     /\ statusFlight = <<>>
                     /\ BagCardinality(cmdPending) = 0)
    /\ [][Startup =>
            /\ \A p \in Pollers : Issued(p) = 1
            /\ statusFlight' = <<Request("load")>>
            /\ Cardinality(timers') = 3
            /\ { t.kind : t \in timers' } = {"status", "chart", "modbus"}
            /\ powerChart'.created]_vars
    /\ [][(TimerFires /\ Issued("status") > 0) =>
            /\ pending' = Issue(pending, "status")
            /\ statusFlight' = Append(statusFlight, Request("tick"))]_vars
    /\ [][(TimerFires /\ (Issued("chart") > 0 \/ Issued("hourly") > 0)) =>
            /\ pending' = Issue(Issue(pending, "chart"), "hourly")
            /\ statusFlight' = statusFlight]_vars

C17_Witness ==
    /\ loaded
    /\ \A p \in Pollers : pending[p] = 1
    /\ statusFlight = <<Request("load")>>
    /\ lastStatus.outcome = "none" /\ lastChart.outcome = "none"

ClearPressed == modbusLog' = <<LogCleared>> /\ modbusLog # <<LogCleared>>

\* C18.  Pressing clear replaces the log pane's content and nothing else: no
\* request is issued or dropped, no timer and no other region changes.  While
\* the pane is cleared the Modbus timer is still set, and a log cycle that
\* then renders, whether issued before or after the press, replaces the cleared
\* pane with the batch it received: its entries newest first, or the
\* placeholder for an empty batch.  A log cycle that fails leaves the pane
\* cleared.
C18_ClearIsCosmetic ==
    /\ [][ClearPressed =>
            UNCHANGED <<timerVars, pending, statusVars, flightVars, cmdVars, chartVars,
                        hourlyVars, healthVars, lastLog>>]_vars
    /\ [](modbusLog = <<LogCleared>> => loaded /\ \E t \in timers : t.kind = "modbus")
    /\ [][(modbusLog = <<LogCleared>> /\ LogCycleEnds) =>
            LET d == lastLog'.data
                K == IF Has(d, "logs") THEN Len(d.logs) ELSE 0
            IN  /\ lastLog'.cleared
                /\ lastLog'.outcome \in {"rejected", "notjson"} => modbusLog' = <<LogCleared>>
                /\ lastLog'.outcome = "rendered" =>
                     IF K = 0 THEN modbusLog' = <<LogPlaceholder>>
                     ELSE /\ Len(modbusLog') = K
                          /\ \A i \in 1..K :
                               /\ modbusLog'[i].kind = "log-entry"
                               /\ modbusLog'[i].slave_id = d.logs[K + 1 - i].slave_id]_vars

C18_Witness ==
    /\ lastLog.outcome = "rendered" /\ lastLog.cleared
    /\ Len(modbusLog) = MaxLogs
    /\ modbusLog[1].kind = "log-entry"
    /\ pending["log"] = 1

SetpointRequests == { req \in PendingCommands : req.handler \in Setpoints }

ClickStep == dispatched' = dispatched + 1

\* C19 as stated.  The value carried by the body of every setpoint POST is
\* the content of the input element as it stands, numeric or not.
C19_SentAsIs ==
    \A req \in SetpointRequests : req.body.json = req.value

\* A decimal literal: an optional minus sign, digits, and optionally a point
\* followed by digits.
IsLiteral(p) ==
    LET body == IF p # <<>> /\ p[1] = "-" THEN Tail(p) ELSE p
        points == { i \in 1..Len(body) : body[i] = "." }
    IN  /\ body # <<>>
        /\ \A i \in 1..Len(body) : body[i] \in Digits \cup {"."}
        /\ Cardinality(points) <= 1
        /\ \A i \in points : 1 < i /\ i < Len(body)

\* The longest prefix of text that is a decimal literal, or nothing.
NumericPrefix(text) ==
    LET lengths == { n \in 1..Len(text) : IsLiteral(SubSeq(text, 1, n)) }
    IN  IF lengths = {} THEN <<>>
        ELSE SubSeq(text, 1, CHOOSE n \in lengths : \A m \in lengths : m <= n)

\* C19 as the code has it.  Every click on a setpoint button, whatever its
\* input holds, sends exactly one POST and no other request; the body has one
\* member, named after the setpoint, whose value is the number the longest
\* numeric prefix of the content denotes, in or out of range, and null when
\* the content has no numeric prefix (empty or non-numeric).  A response with
\* success = false ends the handler with one error notification and no
\* refresh.
C19_SentParsed ==
    /\ [](\A req \in SetpointRequests :
            /\ req.body.name = (IF req.handler = "setIrradiance" THEN "irradiance"
                                ELSE IF req.handler = "setTemperature" THEN "temperature"
                                ELSE "percent")
            /\ req.body.json = IF NumericPrefix(req.value) = <<>>
                               THEN <<"n", "u", "l", "l">>
                               ELSE NumericPrefix(req.value))
    /\ [][ClickStep =>
            /\ BagCardinality(cmdPending') = BagCardinality(cmdPending) + 1
            /\ pending' = pending]_vars
    /\ [][(CommandEnds /\ lastCmd'.outcome = "parsed" /\ ~lastCmd'.result.success) =>
            /\ Len(lastCmd'.notes) = 1
            /\ lastCmd'.notes[1].type = "error"
            /\ lastCmd'.refresh = 0
            /\ ~lastCmd'.escaped]_vars

C19_Witness ==
    /\ \E req \in SetpointRequests :
          /\ req.handler = "setIrradiance"
          /\ req.value = <<"a", "b", "c">>
          /\ req.body.json = <<"n", "u", "l", "l">>
    /\ \E req \in SetpointRequests :
          /\ req.handler = "setPControl"
          /\ req.value = <<"1", "5", "0">>
          /\ req.body.json = <<"1", "5", "0">>

\* A health cycle that ended in the catch block with nothing rendered: the
\* fetch rejected, the body was not JSON, or available was true without a
\* status object.
ThrewBeforeRendering(h) ==
    \/ h.outcome \in {"rejected", "notjson"}
    \/ h.outcome = "threw" /\ h.data.available /\ ~Has(h.data, "status")

\* C20.  A health cycle that throws before rendering leaves exactly one
\* banner, the held one, carrying the generic query-error message, whatever
\* banner there was before; and it leaves the indicator, the port, baudrate
\* and slave fields and the slave grid as the previous cycle left them.
C20_ThrowKeepsFields ==
    [][(HealthCycleEnds /\ ThrewBeforeRendering(lastHealth')) =>
            /\ modbusUI' = modbusUI
            /\ Len(sectionBanners') = 1
            /\ sectionBanners'[1].message = QueryError
            /\ modbusAlertElement' = sectionBanners'[1]
            /\ lastAlertCall'.op = "show"]_vars

C20_Witness ==
    /\ lastHealth.outcome = "threw"
    /\ lastHealth.data.available /\ ~Has(lastHealth.data, "status")
    /\ modbusUI.text = "running"
    /\ Len(modbusUI.grid) = 2
    /\ sectionBanners = <<modbusAlertElement>>
    /\ modbusAlertElement.message = QueryError

DismissStep == pending' = pending /\ sectionBanners' # sectionBanners

\* C21.  The close button removes the banner and empties the alert slot and
\* does nothing else: no timer stops and no fetch is dropped.  A health cycle
\* that then fails or ends in a degraded branch creates a new banner, held in
\* the slot, whether or not the one before it was dismissed; so while the
\* backend stays degraded a dismissed banner is always followed by a new one.
C21_DismissedBannerReturns ==
    /\ [][DismissStep =>
            /\ sectionBanners' = <<>>
            /\ modbusAlertElement' = NullElement
            /\ UNCHANGED <<timerVars, modbusUI, lastHealth>>]_vars
    /\ [][HealthCycleEnds =>
            /\ Len(sectionBanners') = 1
            /\ modbusAlertElement' = sectionBanners'[1]
            /\ lastAlertCall'.op = "show"]_vars
    /\ (loaded /\ sectionBanners = <<>>) ~> (Len(sectionBanners) = 1)

C21_Witness ==
    /\ lastAlertCall.op = "show" /\ lastAlertCall.after = "hide"
    /\ Len(sectionBanners) = 1
    /\ lastHealth.outcome = "rendered" /\ ~lastHealth.data.actually_connected

TransportFailure(cycle) == cycle.outcome \in {"rejected", "notjson"}

\* C22.  An hourly cycle or a log cycle whose fetch rejects or whose body is
\* not JSON leaves its pane as it was, rows, placeholder or cleared text alike;
\* the hourly pane changes only in a step of an hourly cycle whose response
\* was parsed, and the log pane only in such a step of a log cycle or at a
\* press of the clear button.
C22_TransportFailureKeepsPane ==
    [][/\ (HourlyCycleEnds /\ TransportFailure(lastHourly')) => hourlyList' = hourlyList
       /\ (LogCycleEnds /\ TransportFailure(lastLog')) => modbusLog' = modbusLog
       /\ hourlyList' # hourlyList =>
            HourlyCycleEnds /\ lastHourly'.outcome \in {"rendered", "threw"}
       /\ modbusLog' # modbusLog =>
            \/ LogCycleEnds /\ lastLog'.outcome \in {"rendered", "threw"}
            \/ ClearPressed /\ ~LogCycleEnds]_vars

C22_Witness ==
    /\ lastHourly.outcome = "rejected"
    /\ Len(hourlyList) = 2 /\ hourlyList # <<HourlyPlaceholder>>
    /\ lastLog.outcome = "notjson" /\ lastLog.cleared
    /\ modbusLog = <<LogCleared>>

TimersOf(kind) == { t \in timers : t.kind = kind }

\* C23.  However often and in whatever order startAutoUpdate and
\* startChartUpdate have been called, at most one Status timer and at most one
\* Chart/History timer are active, and each is the one its handle names; a
\* handle that is null means no timer of its kind.
C23_OneTimerPerHandle ==
    /\ Cardinality(TimersOf("status")) <= 1
    /\ Cardinality(TimersOf("chart")) <= 1
    /\ TimersOf("status") = { t \in timers : updateInterval # 0 /\ t.id = updateInterval }
    /\ TimersOf("chart") = { t \in timers : chartInterval # 0 /\ t.id = chartInterval }
    /\ updateInterval # 0 => TimersOf("status") # {}
    /\ chartInterval # 0 => TimersOf("chart") # {}

C23_Witness ==
    /\ loaded
    /\ Starts(timers, "status") >= MaxStarts
    /\ Starts(timers, "chart") >= MaxStarts
    /\ Cardinality(timers) = 3

====
